---- MODULE Spec2Model ----
(***************************************************************************)
(* Model of the py4dvar cost/gradient engine: the observation operator and *)
(* its adjoint (forcing operator), the shared physical parameters set by   *)
(* PhysicalAbstractData.from_file, and the driver functions cost_func and  *)
(* gradient_func.                                                          *)
(*                                                                         *)
(* Arrays are functions over index sets; Python dictionaries are functions *)
(* over their key sets; None is the empty tuple.  Values are integers:      *)
(* floating-point rounding is not modelled.                                *)
(***************************************************************************)
EXTENDS Integers, Sequences, FiniteSets, TLC

(***************************************************************************)
(* Bounds of the model.                                                    *)
(***************************************************************************)
NRows == 2          \* rows of the model grid
NCols == 2          \* columns of the model grid
NObs == 2           \* number of observations
MaxWeight == 2      \* weights of a weight map are 1..MaxWeight
MaxFootprint == 2   \* largest number of cells in one weight map
MaxVal == 1         \* magnitudes of field values and residuals
MaxDim == 2         \* emission arrays of the files have dimensions 1..MaxDim
MaxUnknowns == 2    \* the files have 1..MaxUnknowns unknowns

None == << >>

VARIABLES
    weight_grid,    \* ObservationData.weight_grid: one {coord: weight} map per observation
    obs_in,         \* obs_operator: value array of the ModelOutputData argument (None before a call)
    obs_out,        \* obs_operator: value array of the returned ObservationData
    frc_in,         \* calc_forcing: value array of the weighted-residual argument
    frc_out         \* calc_forcing: value array of the returned AdjointForcingData

obsvars == <<weight_grid, obs_in, obs_out, frc_in, frc_out>>

VARIABLES
    params,         \* the class attributes of PhysicalAbstractData: name -> None or Some(value)
    ff_conflict,    \* from_file: the file of the last call implied, for a parameter defined
                    \* before the call, a value other than the parameter's
    ff_result,      \* from_file: "ok" if the last call returned, "error" if it raised
    ff_inst,        \* from_file: the instance the last call returned (None if it raised)
    ff_differs,     \* from_file: the calibration parameters, defined before the last
                    \* call, for which the file implied another value
    ff_warned,      \* from_file: the parameters the last call logged a warning about
    ff_sound,       \* from_file: the file of the last call loads when no parameter is
                    \* defined and implied no other value for any other parameter
    phys_current,   \* access.phys_current: None or Some(instance)
    ctor_call       \* None or Some(the last call of the constructor, create_new or
                    \* example: op, cls, keys, result "ok" or "error", inst)

parvars == <<params, ff_conflict, ff_result, ff_inst, ff_differs, ff_warned, ff_sound,
            phys_current, ctor_call>>

VARIABLES
    unit_convert_dict,  \* map_sense.py: the cache of unit conversions, None or Some(dict)
    background,         \* the PhysicalData that user_driver.get_background() returns
    observed_value,     \* the values of the ObservationData that user_driver.get_observed() returns
    fn,                 \* the driver function of the current or last call
    status,             \* "idle", "running", "returned" or "raised"
    pc,                 \* number of the next statement of the running function
    env,                \* the local variables of the call: name -> None or Some(value)
    oplog,              \* the statements executed by the call, in order
    cleaned,            \* the local variables cleanup() was called on
    ret,                \* None or Some(value the call returned)
    probe               \* None or Some(an earlier returned call: fn, vector, ret, env, oplog)

drvvars == <<unit_convert_dict, background, observed_value, fn, status, pc, env, oplog,
             cleaned, ret, probe>>

VARIABLES
    reference,      \* the reference grid behind get_unit_convert: the date list, the
                    \* timestep count of template.sense_emis and the DENSA_J series of
                    \* the meteorology (None when map_sense is not under study)
    tstep,          \* PhysicalAdjointData.tstep: the seconds of each physical timestep
    sense_call      \* None or Some(the last call of map_sense: its argument, whether
                    \* get_unit_convert ran and returned, the result)

snsvars == <<reference, tstep, sense_call>>

VARIABLES
    arch_tsec,      \* archive: None or Some(tsec of the instance that is archived)
    arch_tstep,     \* archive: None or Some(the TSTEP attribute written: day count, HHMMSS)
    arch_read       \* from_file: None or Some(the tsec read back from the archive)

arcvars == <<arch_tsec, arch_tstep, arch_read>>

VARIABLES
    heap,           \* the arrays in memory: address -> None or Some(array)
    caller,         \* the addresses of the arrays the caller holds
    instance,       \* None or Some(the instance last constructed: class, the
                    \* addresses of its arrays, the arrays it was given)
    heap_call       \* None or Some(the last call of an operator or of the driver: the
                    \* function, the addresses of its inputs, the address of its result)

heapvars == <<heap, caller, instance, heap_call>>

vars == <<obsvars, parvars, drvvars, snsvars, arcvars, heapvars>>

\* archive and the arrays in memory are not under study
ArchiveIdle ==
    /\ arch_tsec = << >>
    /\ arch_tstep = << >>
    /\ arch_read = << >>

HeapIdle ==
    /\ heap = << >>
    /\ caller = << >>
    /\ instance = << >>
    /\ heap_call = << >>

\* map_sense is not under study
SenseIdle ==
    /\ reference = << >>
    /\ tstep = << >>
    /\ sense_call = << >>

\* the driver is not running
DriverIdle ==
    /\ unit_convert_dict = << >>
    /\ background = << >>
    /\ observed_value = << >>
    /\ fn = "None"
    /\ status = "idle"
    /\ pc = 0
    /\ env = << >>
    /\ oplog = << >>
    /\ cleaned = {}
    /\ ret = << >>
    /\ probe = << >>

(***************************************************************************)
(* Grid and weight maps.                                                   *)
(***************************************************************************)
Rows == 0 .. (NRows - 1)
Cols == 0 .. (NCols - 1)
Cells == Rows \X Cols

Footprints == {S \in SUBSET Cells : Cardinality(S) <= MaxFootprint}
WeightMaps == UNION {[S -> 1 .. MaxWeight] : S \in Footprints}

Min(a, b) == IF a <= b THEN a ELSE b
Max(a, b) == IF a >= b THEN a ELSE b

\* f[1] + ... + f[n]
RECURSIVE SumTo(_, _)
SumTo(f, n) == IF n = 0 THEN 0 ELSE f[n] + SumTo(f, n - 1)

(***************************************************************************)
(* PhysicalAbstractData (datadef/abstract/_physical_abstract_data.py): the *)
(* class-level parameters, assert_params, __init__ and from_file.          *)
(* An optional value is None or Some(v).  A 1-D array is a sequence, a 2-D *)
(* or 4-D array a record of its shape and of its entries (a 2-D array      *)
(* indexed from 1, a 4-D array from 0).                                    *)
(***************************************************************************)
Some(v) == <<v>>
Val(o) == o[1]

Idx4(shape) ==
    (0 .. (shape[1] - 1)) \X (0 .. (shape[2] - 1))
        \X (0 .. (shape[3] - 1)) \X (0 .. (shape[4] - 1))

\* np.zeros( shape )
Zeros4(shape) == [shape |-> shape, val |-> [idx \in Idx4(shape) |-> 0]]

daysec == 24 * 60 * 60

par_name == <<"tsec", "nstep", "nlays_emis", "nrows", "ncols", "spcs",
              "emis_unc_vector", "emis_corr_matrix", "nall_cells", "nunknowns">>

\* par_mutable = ['emis_unc_vector, emis_corr_matrix']: a list of ONE string
par_mutable == {"emis_unc_vector, emis_corr_matrix"}

ParNames == {par_name[k] : k \in 1 .. Len(par_name)}

\* the class body: every parameter is None
NoParams == [name \in ParNames |-> None]

Range(seq) == {seq[k] : k \in 1 .. Len(seq)}

\* numpy broadcasting of two shapes of the same rank
Broadcastable(s, t) ==
    /\ Len(s) = Len(t)
    /\ \A k \in 1 .. Len(s) : s[k] = t[k] \/ s[k] = 1 \/ t[k] = 1

\* np.all( old_val == val ) for 1-D arrays: a shape that does not broadcast
\* compares as not equal
np_all_eq_1d(old_val, val) ==
    /\ Broadcastable(<<Len(old_val)>>, <<Len(val)>>)
    /\ \A k \in 1 .. Max(Len(old_val), Len(val)) :
           old_val[IF Len(old_val) = 1 THEN 1 ELSE k]
               = val[IF Len(val) = 1 THEN 1 ELSE k]

\* np.all( old_val == val ) for 2-D arrays
np_all_eq_2d(old_val, val) ==
    /\ Broadcastable(old_val.shape, val.shape)
    /\ \A r \in 1 .. Max(old_val.shape[1], val.shape[1]) :
       \A c \in 1 .. Max(old_val.shape[2], val.shape[2]) :
           old_val.val[<<IF old_val.shape[1] = 1 THEN 1 ELSE r,
                         IF old_val.shape[2] = 1 THEN 1 ELSE c>>]
               = val.val[<<IF val.shape[1] = 1 THEN 1 ELSE r,
                           IF val.shape[2] = 1 THEN 1 ELSE c>>]

np_all_eq_strict(name, old_val, val) == old_val = val

\* np.all( old_val == val ) of from_file's loop, by the type of the parameter:
\* numbers and lists (spcs) compare by ==, arrays elementwise with broadcasting
np_all_eq(name, old_val, val) ==
    IF name = "emis_unc_vector" THEN np_all_eq_1d(old_val, val)
    ELSE IF name = "emis_corr_matrix" THEN np_all_eq_2d(old_val, val)
    ELSE old_val = val

\* assert_params without the assertion on the step count (line 275)
assert_params_no_step_count(par) ==
    /\ \A k \in 1 .. Len(par_name) : par[par_name[k]] # None
    /\ Min(daysec, Val(par.tsec)) # 0
    /\ Max(daysec, Val(par.tsec)) % Min(daysec, Val(par.tsec)) = 0

\* assert_params: every parameter is defined and tsec/nstep divide into days
\* (tsec = 0 raises ZeroDivisionError instead of AssertionError)
assert_params(par) ==
    /\ \A k \in 1 .. Len(par_name) : par[par_name[k]] # None
    /\ Min(daysec, Val(par.tsec)) # 0
    /\ Max(daysec, Val(par.tsec)) % Min(daysec, Val(par.tsec)) = 0
    /\ \/ Val(par.tsec) >= daysec
       \/ Val(par.nstep) % (daysec \div Val(par.tsec)) = 0

\* __init__ that accepts species beside the shared ones
\* (assert set( self.spcs ) <= set( emis_dict.keys() ))
init_ok_extra_species(par, emis_dict) ==
    /\ assert_params(par)
    /\ Range(Val(par.spcs)) \subseteq DOMAIN emis_dict
    /\ \A spcs_name \in Range(Val(par.spcs)) :
           LET emis_data == emis_dict[spcs_name]
           IN  /\ Len(emis_data.shape) = 4
               /\ emis_data.shape[1] = Val(par.nstep)
               /\ emis_data.shape[2] = Val(par.nlays_emis)
               /\ emis_data.shape[3] = Val(par.nrows)
               /\ emis_data.shape[4] = Val(par.ncols)

\* __init__( icon_dict, emis_dict ) with inc_icon False: TRUE iff no assertion
\* fails
init_ok(par, emis_dict) ==
    /\ assert_params(par)
    /\ DOMAIN emis_dict = Range(Val(par.spcs))
    /\ \A spcs_name \in Range(Val(par.spcs)) :
           LET emis_data == emis_dict[spcs_name]
           IN  /\ Len(emis_data.shape) = 4
               /\ emis_data.shape[1] = Val(par.nstep)
               /\ emis_data.shape[2] = Val(par.nlays_emis)
               /\ emis_data.shape[3] = Val(par.nrows)
               /\ emis_data.shape[4] = Val(par.ncols)

\* the instance __init__ builds: self.emis holds one array per species of spcs
new_instance(cls, par, emis_dict) ==
    [cls |-> cls,
     emis |-> [spcs_name \in Range(Val(par.spcs)) |-> emis_dict[spcs_name]]]

\* the loop of from_file over zip( par_name, par_val ), from index k on:
\* the parameters when it ends, whether it ended without a failed assertion,
\* and the parameters it logged the warning 'Any change to ... is applied
\* globally!' about
RECURSIVE assign_params(_, _, _)
assign_params(par, par_val, k) ==
    IF k > Len(par_name) THEN [params |-> par, ok |-> TRUE, warned |-> {}]
    ELSE LET name == par_name[k]
             val == par_val[name]
             old_val == par[name]
         IN  IF /\ old_val # None
                /\ name \notin par_mutable
                /\ ~ np_all_eq(name, Val(old_val), val)
             THEN [params |-> par, ok |-> FALSE, warned |-> {}]
             ELSE LET rest == assign_params([par EXCEPT ![name] = Some(val)],
                                            par_val, k + 1)
                  IN  IF old_val # None /\ name \in par_mutable
                      THEN [rest EXCEPT !.warned = @ \cup {name}]
                      ELSE rest

\* ncf.get_variable( filename, spcs_list, group='emis' ): the variables of the
\* group whose name is in spcs_list
get_emis_dict(file, spcs_list) ==
    [spc \in (DOMAIN file.emis) \cap Range(spcs_list) |-> file.emis[spc]]

\* the parameter values from_file reads from the file (par_val); the shape is
\* that of the first emission array
file_par_val(file) ==
    LET emis_dict == get_emis_dict(file, file.spcs)
        first == emis_dict[CHOOSE spc \in DOMAIN emis_dict : TRUE].shape
    IN  [tsec |-> file.tsec, nstep |-> first[1], nlays_emis |-> first[2],
         nrows |-> first[3], ncols |-> first[4], spcs |-> file.spcs,
         emis_unc_vector |-> file.unc_vector,
         emis_corr_matrix |-> file.corr_matrix,
         nall_cells |-> file.corr_matrix.shape[1],
         nunknowns |-> file.corr_matrix.shape[2]]

\* from_file( filename ) called on class cls with the class parameters par:
\* the parameters afterwards, and the instance or an error
from_file(cls, par, file) ==
    LET spcs_list == file.spcs
        emis_dict == get_emis_dict(file, spcs_list)
        failed == [params |-> par, result |-> "error", inst |-> None, warned |-> {}]
    IN  IF ~ file.sdate_ok \/ ~ file.edate_ok THEN failed
        ELSE IF \E a, b \in DOMAIN emis_dict : emis_dict[a].shape # emis_dict[b].shape
        THEN failed
        ELSE IF DOMAIN emis_dict = {} THEN failed
        ELSE
        LET par_val == file_par_val(file)
            tsec == par_val.tsec
            estep == par_val.nstep
            elays == par_val.nlays_emis
            erows == par_val.nrows
            ecols == par_val.ncols
        IN  IF Min(daysec, tsec) = 0 THEN failed
            ELSE IF Max(daysec, tsec) % Min(daysec, tsec) # 0 THEN failed
            ELSE IF ~ (tsec >= daysec \/ estep % (daysec \div tsec) = 0) THEN failed
            ELSE IF Len(par_val.emis_unc_vector) # par_val.nunknowns THEN failed
            ELSE IF par_val.nall_cells # Len(spcs_list) * estep * elays * erows * ecols
            THEN failed
            ELSE
            LET assigned == assign_params(par, par_val, 1)
            IN  IF ~ assigned.ok
                THEN [params |-> assigned.params, result |-> "error", inst |-> None,
                      warned |-> assigned.warned]
                ELSE IF ~ init_ok(assigned.params, emis_dict)
                THEN [params |-> assigned.params, result |-> "error", inst |-> None,
                      warned |-> assigned.warned]
                ELSE [params |-> assigned.params, result |-> "ok",
                      inst |-> new_instance(cls, assigned.params, emis_dict),
                      warned |-> assigned.warned]

(***************************************************************************)
(* The files from_file is called on.                                       *)
(***************************************************************************)
Species == {"CO2", "CO"}
SpcsLists == {<<"CO2">>, <<"CO2", "CO">>, <<"CO", "CO2">>}
TsecChoices == {daysec \div 2, daysec, 50000}

\* 4-D shapes with at most one dimension above 1
ShapeChoices ==
    {s \in [1 .. 4 -> 1 .. MaxDim] : Cardinality({k \in 1 .. 4 : s[k] > 1}) <= 1}

Cardinal(shape) == shape[1] * shape[2] * shape[3] * shape[4]

UncChoices == {<<1>>, <<2>>, <<1, 1>>}

\* correlation matrices: all ones, or ones on the diagonal
CorrChoices(nall, nunk) ==
    {[shape |-> <<nall, nunk>>,
      val |-> [rc \in (1 .. nall) \X (1 .. nunk) |-> 1]],
     [shape |-> <<nall, nunk>>,
      val |-> [rc \in (1 .. nall) \X (1 .. nunk) |-> IF rc[1] = rc[2] THEN 1 ELSE 0]]}

\* files whose dates, emission group and array shapes are consistent, with
\* one layer and one row
SoundFiles ==
    UNION {UNION {UNION {
        {[sdate_ok |-> TRUE, edate_ok |-> TRUE, tsec |-> t, spcs |-> l,
          emis |-> [spc \in Range(l) |-> Zeros4(s)],
          unc_vector |-> u, corr_matrix |-> m] :
            t \in {daysec \div 2, daysec},
            m \in CorrChoices(Len(l) * Cardinal(s), Len(u))} :
        u \in {v \in UncChoices : Len(v) <= MaxUnknowns}} :
        s \in {x \in ShapeChoices : x[2] = 1 /\ x[3] = 1}} : l \in SpcsLists}

\* one defect put into a sound file: a wrong date, a timestep that does not
\* divide a day, the last listed species missing from the emission group, the
\* first species with another shape, a correlation matrix with one row too
\* many, an uncertainty vector one entry longer than the matrix has columns
Defects(f) ==
    {[f EXCEPT !.sdate_ok = FALSE],
     [f EXCEPT !.edate_ok = FALSE],
     [f EXCEPT !.tsec = 50000],
     [f EXCEPT !.emis = [spc \in Range(SubSeq(f.spcs, 1, Len(f.spcs) - 1)) |->
                            f.emis[spc]]],
     [f EXCEPT !.emis = [spc \in Range(f.spcs) |->
                            IF spc = f.spcs[1]
                            THEN Zeros4([f.emis[spc].shape EXCEPT ![1] = @ + 1])
                            ELSE f.emis[spc]]],
     [f EXCEPT !.corr_matrix =
         [shape |-> <<f.corr_matrix.shape[1] + 1, f.corr_matrix.shape[2]>>,
          val |-> [rc \in (1 .. (f.corr_matrix.shape[1] + 1))
                          \X (1 .. f.corr_matrix.shape[2]) |-> 1]]],
     [f EXCEPT !.unc_vector = Append(f.unc_vector, 1)]}

Files ==
    SoundFiles \cup
    UNION {Defects(f) : f \in {g \in SoundFiles :
                                  /\ Cardinal(g.emis[g.spcs[1]].shape) = 1
                                  /\ g.unc_vector = <<1>>}}

Classes == {"PhysicalData", "PhysicalAdjointData"}

\* the file implies, for a parameter that is defined, another value
Conflicts(par, file) ==
    /\ DOMAIN get_emis_dict(file, file.spcs) # {}
    /\ \E name \in ParNames :
           par[name] # None /\ Val(par[name]) # file_par_val(file)[name]

\* the uncertainty vector and the correlation matrix
Calibration == {"emis_unc_vector", "emis_corr_matrix"}

\* the parameters that are defined and for which the file implies another value
Differs(par, file) ==
    IF DOMAIN get_emis_dict(file, file.spcs) = {} THEN {}
    ELSE {name \in ParNames :
             par[name] # None /\ Val(par[name]) # file_par_val(file)[name]}

InitParams ==
    /\ params = NoParams
    /\ ff_conflict = FALSE
    /\ ff_result = "None"
    /\ ff_inst = None
    /\ ff_differs = {}
    /\ ff_warned = {}
    /\ ff_sound = FALSE
    /\ phys_current = None
    /\ ctor_call = None
    /\ weight_grid = << >>
    /\ obs_in = None
    /\ obs_out = None
    /\ frc_in = None
    /\ frc_out = None
    /\ DriverIdle
    /\ SenseIdle
    /\ ArchiveIdle
    /\ HeapIdle

\* cls.from_file( filename )
FromFile ==
    \E cls \in Classes, file \in Files :
        LET r == from_file(cls, params, file)
        IN  /\ params' = r.params
            /\ ff_conflict' = Conflicts(params, file)
            /\ ff_result' = r.result
            /\ ff_inst' = r.inst
            /\ ff_differs' = Differs(params, file) \cap Calibration
            /\ ff_warned' = r.warned
            /\ ff_sound' = (/\ Differs(params, file) \subseteq Calibration
                            /\ from_file(cls, NoParams, file).result = "ok")
            /\ UNCHANGED <<obsvars, snsvars, arcvars, heapvars, drvvars, phys_current, ctor_call>>

NextParams == FromFile

SpecParams == InitParams /\ [][NextParams]_vars

(***************************************************************************)
(* The TSTEP attribute: archive writes it from tsec, from_file reads tsec   *)
(* back from it.  A string of digits is a sequence of digits.              *)
(***************************************************************************)
MaxDays == 2        \* the archived timesteps are shorter than MaxDays + 1 days

\* str( x ) for x >= 0: the decimal digits
RECURSIVE Digits(_)
Digits(x) == IF x < 10 THEN <<x>> ELSE Append(Digits(x \div 10), x % 10)

\* '{:02}'.format( x ): the decimal digits, padded with a zero to two digits
Format02(x) == IF x < 10 THEN <<0, x>> ELSE Digits(x)

\* '{}'.format( x ): the decimal digits without padding
FormatPlain(x) == Digits(x)

\* int( string of digits )
RECURSIVE DigitsToInt(_)
DigitsToInt(str) ==
    IF str = << >> THEN 0
    ELSE 10 * DigitsToInt(SubSeq(str, 1, Len(str) - 1)) + str[Len(str)]

\* archive with hms = int( '{}{}{}'.format( hour, minute, second ) )
archive_tstep_unpadded(tsec) ==
    LET second == tsec % 60
        minute == (tsec \div 60) % 60
        hour == ((tsec \div 60) \div 60) % 24
        day == ((tsec \div 60) \div 60) \div 24
        hms == DigitsToInt(FormatPlain(hour) \o FormatPlain(minute) \o FormatPlain(second))
    IN  <<day, hms>>

\* archive: the TSTEP attribute [day, hms] written for self.tsec
\* (minute, second = divmod( tsec, 60 ); hour, minute = divmod( minute, 60 );
\* day, hour = divmod( hour, 24 ); hms = int( '{:02}{:02}{:02}'.format( ... ) ))
archive_tstep(tsec) ==
    LET second == tsec % 60
        minute == (tsec \div 60) % 60
        hour == ((tsec \div 60) \div 60) % 24
        day == ((tsec \div 60) \div 60) \div 24
        hms == DigitsToInt(Format02(hour) \o Format02(minute) \o Format02(second))
    IN  <<day, hms>>

\* from_file: tsec = daysec*day + 3600*(step//10000) + 60*((step//100)%100)
\* + (step)%100 for the TSTEP attribute [day, step]
from_file_tsec(tstep_attr) ==
    LET day == tstep_attr[1]
        step == tstep_attr[2]
    IN  daysec * day + 3600 * (step \div 10000) + 60 * ((step \div 100) % 100)
            + (step % 100)

\* the timestep sizes that are archived: every combination of days, of the
\* hours 0, 1, 9, 10, 23, of the minutes and of the seconds 0, 1, 9, 10, 59
ArchivedTsecs ==
    {d * daysec + h * 3600 + m * 60 + sec :
        d \in 0 .. MaxDays, h \in {0, 1, 9, 10, 23},
        m \in {0, 1, 9, 10, 59}, sec \in {0, 1, 9, 10, 59}}

InitArchive ==
    /\ arch_tsec \in {Some(tsec) : tsec \in ArchivedTsecs}
    /\ arch_tstep = None
    /\ arch_read = None
    /\ params = NoParams
    /\ ff_conflict = FALSE
    /\ ff_result = "None"
    /\ ff_inst = None
    /\ ff_differs = {}
    /\ ff_warned = {}
    /\ ff_sound = FALSE
    /\ phys_current = None
    /\ ctor_call = None
    /\ weight_grid = << >>
    /\ obs_in = None
    /\ obs_out = None
    /\ frc_in = None
    /\ frc_out = None
    /\ DriverIdle
    /\ SenseIdle
    /\ HeapIdle

\* instance.archive( path ): the TSTEP attribute of the file
Archive ==
    /\ arch_tsec # None
    /\ arch_tstep' = Some(archive_tstep(Val(arch_tsec)))
    /\ arch_read' = None
    /\ UNCHANGED <<obsvars, parvars, drvvars, snsvars, heapvars, arch_tsec>>

\* cls.from_file( path ) on the archive: the tsec it computes
ReadArchive ==
    /\ arch_tstep # None
    /\ arch_read' = Some(from_file_tsec(Val(arch_tstep)))
    /\ UNCHANGED <<obsvars, parvars, drvvars, snsvars, heapvars, arch_tsec, arch_tstep>>

NextArchive == Archive \/ ReadArchive

SpecArchive == InitArchive /\ [][NextArchive]_vars

\* C22: for every non-negative integer timestep size tsec, the (day count,
\* packed HHMMSS) pair archive writes decodes in from_file to the same tsec, so
\* the archive is read back without a conflict on tsec
C22_TstepRoundTrip ==
    arch_read # None => Val(arch_read) = Val(arch_tsec)

\* the archive of a timestep of 1 day, 1 hour, 9 minutes and 59 seconds, whose
\* TSTEP attribute is [1, 010959], was read back
C22_Witness ==
    /\ arch_tsec = Some(daysec + 3600 + 9 * 60 + 59)
    /\ arch_tstep = Some(<<1, 10959>>)
    /\ arch_read # None

(***************************************************************************)
(* Specification of the constructors: cls( icon_dict, emis_dict ),         *)
(* PhysicalData.create_new, cls.example() and cls.from_file.  The shared   *)
(* parameters are class attributes, set "usally using cls.from_file"       *)
(* (comment of __init__), so beside the parameters from_file leaves, the   *)
(* run may start with parameters assigned directly: one missing, a tsec    *)
(* that does not divide a day, an nstep that does not fill whole days.     *)
(***************************************************************************)
\* cls( icon_dict, emis_dict ) with the class parameters par
construct(cls, par, emis_dict) ==
    IF init_ok(par, emis_dict)
    THEN [result |-> "ok", inst |-> Some(new_instance(cls, par, emis_dict))]
    ELSE [result |-> "error", inst |-> None]

\* cls.example(): arrays of zeros of the shape of the parameters
example(cls, par) ==
    IF ~ assert_params(par) THEN [result |-> "error", inst |-> None]
    ELSE construct(cls, par,
                   [spc \in Range(Val(par.spcs)) |->
                       Zeros4(<<Val(par.nstep), Val(par.nlays_emis),
                                Val(par.nrows), Val(par.ncols)>>)])

\* the files the parameters of a run come from
CtorFiles ==
    {f \in SoundFiles : /\ f.emis[f.spcs[1]].shape = <<2, 1, 1, 1>>
                        /\ f.spcs \in {<<"CO2">>, <<"CO2", "CO">>}
                        /\ f.unc_vector = <<1>>
                        /\ \A rc \in DOMAIN f.corr_matrix.val : f.corr_matrix.val[rc] = 1}

LoadedParams == {from_file("PhysicalData", NoParams, f).params : f \in CtorFiles}

\* parameters assigned directly
DirectParams ==
    UNION {{[par EXCEPT !.nunknowns = None],
            [par EXCEPT !.tsec = Some(50000)],
            [par EXCEPT !.tsec = Some(daysec \div 2), !.nstep = Some(1)]} :
              par \in {q \in LoadedParams : q.spcs # None /\ Val(q.spcs) = <<"CO2">>}}

\* the species dictionaries passed to the constructor: any set of species,
\* every array of the shape of the parameters or with one timestep more
EmisDicts(par) ==
    IF par.nstep = None \/ par.nlays_emis = None \/ par.nrows = None \/ par.ncols = None
    THEN {[spc \in keys |-> Zeros4(<<1, 1, 1, 1>>)] : keys \in SUBSET Species}
    ELSE LET shape == <<Val(par.nstep), Val(par.nlays_emis), Val(par.nrows),
                        Val(par.ncols)>>
         IN  UNION {{[spc \in keys |-> Zeros4(shape)],
                     [spc \in keys |-> Zeros4([shape EXCEPT ![1] = @ + 1])]} :
                       keys \in SUBSET Species}

InitCtor ==
    /\ params \in {NoParams} \cup LoadedParams \cup DirectParams
    /\ ff_conflict = FALSE
    /\ ff_result = "None"
    /\ ff_inst = None
    /\ ff_differs = {}
    /\ ff_warned = {}
    /\ ff_sound = FALSE
    /\ phys_current = None
    /\ ctor_call = None
    /\ weight_grid = << >>
    /\ obs_in = None
    /\ obs_out = None
    /\ frc_in = None
    /\ frc_out = None
    /\ DriverIdle
    /\ SenseIdle
    /\ ArchiveIdle
    /\ HeapIdle

CtorUnchanged ==
    UNCHANGED <<obsvars, snsvars, arcvars, heapvars, drvvars, params, ff_conflict, ff_result, ff_inst, ff_differs,
                ff_warned, ff_sound>>

\* cls( None, emis_dict )
Construct ==
    \E cls \in Classes, emis_dict \in EmisDicts(params) :
        LET r == construct(cls, params, emis_dict)
        IN  /\ ctor_call' = Some([op |-> "__init__", cls |-> cls,
                                  keys |-> DOMAIN emis_dict,
                                  result |-> r.result, inst |-> r.inst])
            /\ UNCHANGED phys_current
            /\ CtorUnchanged

\* PhysicalData.create_new( None, emis_dict )
CreateNew ==
    \E emis_dict \in EmisDicts(params) :
        LET r == construct("PhysicalData", params, emis_dict)
        IN  /\ ctor_call' = Some([op |-> "create_new", cls |-> "PhysicalData",
                                  keys |-> DOMAIN emis_dict,
                                  result |-> r.result, inst |-> r.inst])
            /\ phys_current' = IF r.result = "ok" THEN r.inst ELSE phys_current
            /\ CtorUnchanged

\* cls.example()
Example ==
    \E cls \in Classes :
        LET r == example(cls, params)
        IN  /\ ctor_call' = Some([op |-> "example", cls |-> cls,
                                  keys |-> IF r.result = "ok"
                                           THEN DOMAIN Val(r.inst).emis ELSE {},
                                  result |-> r.result, inst |-> r.inst])
            /\ UNCHANGED phys_current
            /\ CtorUnchanged

\* cls.from_file( filename ) on one of the files of the run or on one with a defect
FromFileCtor ==
    \E cls \in Classes,
       file \in CtorFiles \cup UNION {Defects(f) : f \in {g \in CtorFiles :
                                                            /\ g.spcs = <<"CO2">>
                                                            /\ g.tsec = daysec}} :
        LET r == from_file(cls, params, file)
        IN  /\ params' = r.params
            /\ ff_conflict' = Conflicts(params, file)
            /\ ff_result' = r.result
            /\ ff_inst' = r.inst
            /\ ff_differs' = Differs(params, file) \cap Calibration
            /\ ff_warned' = r.warned
            /\ ff_sound' = (/\ Differs(params, file) \subseteq Calibration
                            /\ from_file(cls, NoParams, file).result = "ok")
            /\ UNCHANGED <<obsvars, snsvars, arcvars, heapvars, drvvars, phys_current, ctor_call>>

NextCtor == Construct \/ CreateNew \/ Example \/ FromFileCtor

SpecCtor == InitCtor /\ [][NextCtor]_vars

AllDefined(par) == \A name \in ParNames : par[name] # None

\* every parameter is defined, tsec is a factor or a multiple of a day, and
\* steps shorter than a day fill whole days
ParamsValid(par) ==
    /\ AllDefined(par)
    /\ \/ \E n \in 1 .. daysec : n * Val(par.tsec) = daysec
       \/ \E n \in 1 .. Val(par.tsec) : n * daysec = Val(par.tsec)
    /\ \/ Val(par.tsec) >= daysec
       \/ \E n \in 0 .. Val(par.nstep) :
              n * (daysec \div Val(par.tsec)) = Val(par.nstep)

\* C13: a call of the constructor, of create_new or of example returns an
\* instance only if the shared parameters are all defined, tsec is a factor or
\* a multiple of 86400 and, for tsec < 86400, nstep is a multiple of
\* 86400/tsec; and whenever from_file returns an instance the parameters it
\* leaves satisfy the same.
C13_ConfigurationFatal ==
    [][/\ (ctor_call' # ctor_call /\ Val(ctor_call').result = "ok")
              => ParamsValid(params)
       /\ ff_result' = "ok" => ParamsValid(params')]_vars

\* example() has raised although every parameter is defined, because the
\* timesteps do not fill whole days
C13_Witness ==
    /\ AllDefined(params)
    /\ Val(params.tsec) < daysec
    /\ Val(params.nstep) % (daysec \div Val(params.tsec)) # 0
    /\ ctor_call # None
    /\ Val(ctor_call).op = "example"
    /\ Val(ctor_call).result = "error"

\* C12: a call of the constructor or of PhysicalData.create_new with a species
\* dictionary whose key set is not the set of the shared species raises and
\* yields no instance, and access.phys_current keeps its value.
C12_FatalOnMismatch ==
    [][(/\ ctor_call' # ctor_call
        /\ Val(ctor_call').op \in {"__init__", "create_new"}
        /\ params.spcs # None
        /\ Val(ctor_call').keys # Range(Val(params.spcs)))
           => (/\ Val(ctor_call').result = "error"
               /\ Val(ctor_call').inst = None
               /\ phys_current' = phys_current)]_vars

\* create_new has raised for a dictionary that lacks a shared species, after an
\* earlier create_new had set access.phys_current
C12_Witness ==
    /\ AllDefined(params)
    /\ ctor_call # None
    /\ Val(ctor_call).op = "create_new"
    /\ Val(ctor_call).keys # Range(Val(params.spcs))
    /\ Val(ctor_call).keys \subseteq Range(Val(params.spcs))
    /\ Val(ctor_call).result = "error"
    /\ phys_current # None

\* C10: once the shared parameters are defined, a from_file call whose file
\* implies a conflicting value for any of them raises an error and leaves every
\* parameter at the value it had.
C10_SetOnce ==
    [][(AllDefined(params) /\ ff_conflict')
           => (ff_result' = "error" /\ params' = params)]_vars

\* the instance inst holds exactly one emission array per species of spcs,
\* each of shape (nstep, nlays_emis, nrows, ncols)
InstanceConsistent(inst) ==
    /\ DOMAIN inst.emis = Range(Val(params.spcs))
    /\ \A spc \in DOMAIN inst.emis :
           inst.emis[spc].shape = <<Val(params.nstep), Val(params.nlays_emis),
                                    Val(params.nrows), Val(params.ncols)>>

\* C23: in every reachable state in which the shared parameters are defined,
\* the uncertainty vector has length nunknowns, the correlation matrix has
\* shape (nall_cells, nunknowns) with nall_cells the number of species times
\* nstep, nlays_emis, nrows and ncols, and the instance the last from_file
\* returned and the current physical instance hold one array of shape
\* (nstep, nlays_emis, nrows, ncols) per species
C23_ShapeConsistency ==
    AllDefined(params) =>
        /\ Len(Val(params.emis_unc_vector)) = Val(params.nunknowns)
        /\ Val(params.emis_corr_matrix).shape
               = <<Val(params.nall_cells), Val(params.nunknowns)>>
        /\ Val(params.nall_cells)
               = Len(Val(params.spcs)) * Val(params.nstep) * Val(params.nlays_emis)
                     * Val(params.nrows) * Val(params.ncols)
        /\ ff_result = "ok" => InstanceConsistent(ff_inst)
        /\ phys_current # None => InstanceConsistent(Val(phys_current))

\* C24: a from_file call that raises, for whatever reason, leaves every
\* shared parameter at the value it had before the call
C24_AllOrNothing ==
    [][ff_result' = "error" => params' = params]_vars

\* C11: once the shared parameters are defined, a from_file call on a file
\* that loads on its own and differs from the parameters only in the
\* uncertainty vector or the correlation matrix returns an instance, logs the
\* warning for each parameter it changes, and leaves every changed parameter at
\* the value of the file.
C11_GlobalOverride ==
    [][(AllDefined(params) /\ ff_sound' /\ ff_differs' # {})
           => (/\ ff_result' = "ok"
               /\ ff_differs' \subseteq ff_warned'
               /\ \A name \in ff_differs' : params'[name] # params[name])]_vars

(***************************************************************************)
(* obs_operator (transfunc/obs_operator.py).                               *)
(***************************************************************************)
\* the inner loop over w_dict.items(): obs_val_arr[ obs_i ] += weight * m_val
RECURSIVE obs_inner_loop(_, _, _, _)
obs_inner_loop(acc, w_dict, coords, value) ==
    IF coords = {} THEN acc
    ELSE LET coord == CHOOSE c \in coords : TRUE
             weight == w_dict[coord]
             m_val == value[<<coord[1], coord[2]>>]
             val == weight * m_val
         IN  obs_inner_loop(acc + val, w_dict, coords \ {coord}, value)

obs_operator_assign(value) ==
    [obs_i \in 1 .. Len(weight_grid) |->
        LET w_dict == weight_grid[obs_i]
        IN  IF DOMAIN w_dict = {} THEN 0
            ELSE LET last == CHOOSE c \in DOMAIN w_dict : TRUE
                 IN  w_dict[last] * value[last]]

\* obs_val_arr starts as zeros( ObservationData.length ); the outer loop
\* enumerates ObservationData.weight_grid
obs_operator(value) ==
    [obs_i \in 1 .. Len(weight_grid) |->
        obs_inner_loop(0, weight_grid[obs_i], DOMAIN weight_grid[obs_i], value)]

(***************************************************************************)
(* calc_forcing (transfunc/calc_forcing.py) and the AdjointForcingData     *)
(* constructor it ends in.                                                 *)
(***************************************************************************)
\* the inner loop over w_dict.items(): force_arr[row,col] += o_val * weight
RECURSIVE forcing_inner_loop(_, _, _, _)
forcing_inner_loop(force_arr, o_val, w_dict, coords) ==
    IF coords = {} THEN force_arr
    ELSE LET coord == CHOOSE c \in coords : TRUE
             weight == w_dict[coord]
             row == coord[1]
             col == coord[2]
         IN  forcing_inner_loop(
                 [force_arr EXCEPT ![<<row, col>>] = @ + (o_val * weight)],
                 o_val, w_dict, coords \ {coord})

\* the outer loop over zip( w_residual.value, w_residual.weight_grid )
RECURSIVE forcing_outer_loop(_, _, _)
forcing_outer_loop(force_arr, value, k) ==
    IF k > Min(Len(value), Len(weight_grid)) THEN force_arr
    ELSE forcing_outer_loop(
             forcing_inner_loop(force_arr, value[k], weight_grid[k],
                                DOMAIN weight_grid[k]),
             value, k + 1)

\* AdjointForcingData.__init__ / create_new: the instance holds np.array( value )
AdjointForcingData(value) == value

calc_forcing_swapped(value) ==
    LET f == forcing_outer_loop([c \in Cells |-> 0], value, 1)
    IN  AdjointForcingData([c \in Cells |-> f[<<c[2], c[1]>>]])

calc_forcing_first_only(value) ==
    AdjointForcingData(
        forcing_outer_loop([c \in Cells |-> 0], SubSeq(value, 1, 1), 1))

calc_forcing(value) ==
    AdjointForcingData(forcing_outer_loop([c \in Cells |-> 0], value, 1))

(***************************************************************************)
(* The assimilation run the driver is studied on: one species, one day of  *)
(* two physical timesteps, a model timestep of 6 hours and sensitivities   *)
(* every 3 hours.                                                          *)
(***************************************************************************)
prior_shape == <<2, 1, NRows, NCols>>

\* the file of the prior (params/input_defn.py: prior_file); unknown k scales
\* physical timestep k - 1, unknown 2 also the first cell
prior_file ==
    [sdate_ok |-> TRUE, edate_ok |-> TRUE, tsec |-> daysec \div 2,
     spcs |-> <<"CO2">>,
     emis |-> [spc \in {"CO2"} |->
                  [shape |-> prior_shape,
                   val |-> [idx \in Idx4(prior_shape) |-> idx[1] + idx[4]]]],
     unc_vector |-> <<1, 2>>,
     corr_matrix |->
         [shape |-> <<Cardinal(prior_shape), 2>>,
          val |-> [rc \in (1 .. Cardinal(prior_shape)) \X (1 .. 2) |->
                      IF (rc[1] - 1) \div (NRows * NCols) = rc[2] - 1 THEN 1
                      ELSE IF rc[1] = 1 THEN 1 ELSE 0]]]

\* dt.get_datelist(): the days of the run
datelist == <<1>>

\* template.emis (the model-input record): shape and TSTEP attribute (HHMMSS)
emis_record == [shape |-> <<5, 1, NRows, NCols>>, TSTEP |-> 60000]

\* template.sense_emis: shape of a day of sensitivities (endpoint included)
sense_shape == <<9, 1, NRows, NCols>>

(***************************************************************************)
(* map_sense (transfunc/map_sense.py), inc_icon False.                     *)
(***************************************************************************)
\* get_unit_convert(): one array of the shape of template.sense_emis per day.
\* The factor (ppm_scale*kg_scale*mwair) / (rhoj_interp*lay_thick) computed
\* from the meteorology of the day is represented by a given integer.
get_unit_convert ==
    [date \in Range(datelist) |->
        [shape |-> sense_shape,
         val |-> [idx \in Idx4(sense_shape) |-> 1 + ((date + idx[1] + idx[3]) % 2)]]]

\* m_tstep = 3600*( t//10000 ) + 60*( (t//100) % 100 ) + ( t%100 )
hms_to_sec(t) == 3600 * (t \div 10000) + 60 * ((t \div 100) % 100) + (t % 100)

\* the while loop with s = min( e_count[t], m_len - r ): a physical timestep
\* that crosses the end of the day is split between the two days
RECURSIVE drain_day_split(_, _, _, _, _, _)
drain_day_split(e_count, t, r, p_ind, m_slice, m_len) ==
    IF ~ (r < m_len)
    THEN [ok |-> TRUE, e_count |-> e_count, t |-> t, p_ind |-> p_ind,
          m_slice |-> m_slice]
    ELSE IF t >= Len(e_count)
    THEN [ok |-> FALSE, e_count |-> e_count, t |-> t, p_ind |-> p_ind,
          m_slice |-> m_slice]
    ELSE LET s == Min(e_count[t + 1], m_len - r)
             e_next == [e_count EXCEPT ![t + 1] = @ - s]
         IN  drain_day_split(e_next,
                             IF e_next[t + 1] <= 0 THEN t + 1 ELSE t,
                             r + s, Append(p_ind, t), Append(m_slice, r + s), m_len)

\* the while loop of one day: drain the step budget e_count (indexed from 1
\* here, t counts from 0) until m_len model steps are assigned
RECURSIVE drain_day(_, _, _, _, _, _)
drain_day(e_count, t, r, p_ind, m_slice, m_len) ==
    IF ~ (r < m_len)
    THEN [ok |-> TRUE, e_count |-> e_count, t |-> t, p_ind |-> p_ind,
          m_slice |-> m_slice]
    ELSE IF t >= Len(e_count)
    THEN [ok |-> FALSE, e_count |-> e_count, t |-> t, p_ind |-> p_ind,
          m_slice |-> m_slice]
    ELSE LET s == Min(e_count[t + 1], m_len)
             e_next == [e_count EXCEPT ![t + 1] = @ - s]
         IN  drain_day(e_next,
                       IF e_next[t + 1] <= 0 THEN t + 1 ELSE t,
                       r + s, Append(p_ind, t), Append(m_slice, r + s), m_len)

\* the reshape of sdata[ 1:, :mlay ]: the first step of the day is dropped
\* and the trailing boundary step summed into the last model step
model_arr_at_with_boundary(sdata, mstep, a, l, r, c) ==
    LET k == (sdata.shape[1] - 1) \div (mstep - 1)
    IN  SumTo([b \in 1 .. k |-> sdata.val[<<a * k + b, l, r, c>>]], k)

\* sdata[ :-1, :mlay ] reshaped to (mstep-1, -1, mlay, mrow, mcol) and summed
\* over axis 1, at model step a, layer l, row r, column c
model_arr_at(sdata, mstep, a, l, r, c) ==
    LET k == (sdata.shape[1] - 1) \div (mstep - 1)
    IN  SumTo([b \in 1 .. k |-> sdata.val[<<a * k + (b - 1), l, r, c>>]], k)

\* model_arr[ start:end, ... ].sum( axis=0 ): a slice beyond the last model
\* step is cut off
phys_arr_at(sdata, mstep, start, end, l, r, c) ==
    LET last == Min(end, mstep - 1)
    IN  IF last <= start THEN 0
        ELSE SumTo([n \in 1 .. (last - start) |->
                       model_arr_at(sdata, mstep, start + n - 1, l, r, c)],
                   last - start)

\* the loop over zip( p_ind, m_slice ) for one species of one day
RECURSIVE add_slices(_, _, _, _, _, _, _)
add_slices(emis, sdata, mstep, mlay, p_ind, m_slice, n) ==
    IF n > Len(p_ind) THEN emis
    ELSE LET ind == p_ind[n]
             start == m_slice[n]
             end == m_slice[n + 1]
         IN  add_slices(
                 [emis EXCEPT !.val =
                     [idx \in DOMAIN emis.val |->
                         IF idx[1] = ind
                         THEN emis.val[idx]
                              + phys_arr_at(sdata, mstep, start, end,
                                            IF mlay = 1 THEN 0 ELSE idx[2],
                                            idx[3], idx[4])
                         ELSE emis.val[idx]]],
                 sdata, mstep, mlay, p_ind, m_slice, n + 1)

\* the sensitivities of one species times the unit conversion of the day
times_units(sense, unit_convert) ==
    [shape |-> sense.shape,
     val |-> [idx \in DOMAIN sense.val |-> sense.val[idx] * unit_convert.val[idx]]]

\* the checks of one species of one day (the four assertions on the shapes,
\* the reshape and the accumulation into play layers)
sense_shape_ok(sdata, mod_shape, play) ==
    /\ mod_shape[1] - 1 > 0
    /\ (sdata.shape[1] - 1) >= (mod_shape[1] - 1)
    /\ (sdata.shape[1] - 1) % (mod_shape[1] - 1) = 0
    /\ sdata.shape[2] >= mod_shape[2]
    /\ sdata.shape[3] = mod_shape[3]
    /\ sdata.shape[4] = mod_shape[4]
    /\ (play <= mod_shape[2] \/ mod_shape[2] = 1)

\* the loop over the species of one day
RECURSIVE add_species(_, _, _, _, _, _, _, _)
add_species(emis_dict, sense_day, unit_convert, mod_shape, play, p_ind, m_slice, spcs) ==
    IF spcs = << >> THEN [ok |-> TRUE, emis_dict |-> emis_dict]
    ELSE LET spc == Head(spcs)
         IN  IF spc \notin DOMAIN sense_day
                \/ sense_day[spc].shape # unit_convert.shape
             THEN [ok |-> FALSE, emis_dict |-> emis_dict]
             ELSE LET sdata == times_units(sense_day[spc], unit_convert)
                  IN  IF ~ sense_shape_ok(sdata, mod_shape, play)
                      THEN [ok |-> FALSE, emis_dict |-> emis_dict]
                      ELSE add_species(
                               [emis_dict EXCEPT ![spc] =
                                   add_slices(@, sdata, mod_shape[1], mod_shape[2],
                                              p_ind, m_slice, 1)],
                               sense_day, unit_convert, mod_shape, play,
                               p_ind, m_slice, Tail(spcs))

\* the loop over the days dates of the date list, from day number n on
RECURSIVE add_days(_, _, _, _, _, _, _, _, _)
add_days(emis_dict, e_count, t, file_data, unit_dict, par, m_len, dates, n) ==
    IF n > Len(dates) THEN [ok |-> TRUE, emis_dict |-> emis_dict]
    ELSE LET date == dates[n]
             day == drain_day(e_count, t, 0, << >>, <<0>>, m_len)
         IN  IF ~ day.ok THEN [ok |-> FALSE, emis_dict |-> emis_dict]
             ELSE IF \E i \in 1 .. (Len(day.p_ind) - 1) :
                         day.p_ind[i + 1] - day.p_ind[i] # 1
             THEN [ok |-> FALSE, emis_dict |-> emis_dict]
             ELSE IF Len(day.m_slice) < 2 \/ day.m_slice[Len(day.m_slice)] # m_len
             THEN [ok |-> FALSE, emis_dict |-> emis_dict]
             ELSE IF date \notin DOMAIN file_data \/ date \notin DOMAIN unit_dict
             THEN [ok |-> FALSE, emis_dict |-> emis_dict]
             ELSE LET done == add_species(emis_dict, file_data[date], unit_dict[date],
                                          emis_record.shape, Val(par.nlays_emis),
                                          day.p_ind, day.m_slice, Val(par.spcs))
                  IN  IF ~ done.ok THEN done
                      ELSE add_days(done.emis_dict, day.e_count, day.t, file_data,
                                    unit_dict, par, m_len, dates, n + 1)

\* PhysicalAdjointData.tstep, the seconds of each physical timestep: nstep
\* steps of tsec seconds
physical_tstep(par) == [n \in 1 .. Val(par.nstep) |-> Val(par.tsec)]

\* map_sense( sensitivity ) from the checks on, with the loaded conversion
\* arrays unit_dict, the class parameters par, the seconds p_tstep of the
\* physical timesteps and the days dates of the date list: the
\* PhysicalAdjointData or an error, and the cache afterwards
map_sense_aligned(sensitivity, unit_dict, par, p_tstep, dates) ==
    LET failed == [ok |-> FALSE, val |-> None, cache |-> unit_dict]
    IN  IF ~ assert_params(par) THEN failed
        ELSE
        LET p == par
            emis_shape == <<Val(p.nstep), Val(p.nlays_emis), Val(p.nrows), Val(p.ncols)>>
            emis_dict == [spc \in Range(Val(p.spcs)) |-> Zeros4(emis_shape)]
            m_tstep == hms_to_sec(emis_record.TSTEP)
        IN  IF m_tstep = 0 THEN failed
            ELSE IF \E n \in 1 .. Len(p_tstep) : p_tstep[n] % m_tstep # 0 THEN failed
            ELSE
            LET e_count == [n \in 1 .. Len(p_tstep) |-> p_tstep[n] \div m_tstep]
                m_len == daysec \div m_tstep
                days == add_days(emis_dict, e_count, 0, sensitivity.file_data,
                                 Val(unit_dict), par, m_len, dates, 1)
            IN  IF ~ days.ok THEN failed
                ELSE IF ~ init_ok(par, days.emis_dict) THEN failed
                ELSE [ok |-> TRUE,
                      val |-> new_instance("PhysicalAdjointData", par, days.emis_dict),
                      cache |-> unit_dict]

\* map_sense( sensitivity ) from the checks on, for the date list and the
\* physical timesteps of the run
map_sense_checked(sensitivity, unit_dict, par) ==
    map_sense_aligned(sensitivity, unit_dict, par, physical_tstep(par), datelist)

\* map_sense that rescales the cached arrays in place at every call
\* (unit_convert *= 2): the cache keeps the scaled arrays
map_sense_in_place(sensitivity, cache, par) ==
    LET unit_dict == IF cache = None THEN Some(get_unit_convert) ELSE cache
        r == map_sense_checked(sensitivity, unit_dict, par)
        scaled(arr) == [arr EXCEPT !.val = [idx \in DOMAIN arr.val |-> 2 * arr.val[idx]]]
    IN  [r EXCEPT !.cache =
            Some([date \in DOMAIN Val(unit_dict) |-> scaled(Val(unit_dict)[date])])]

\* map_sense( sensitivity ) with the cache unit_convert_dict: the conversion
\* arrays are computed if the cache is empty
map_sense(sensitivity, cache, par) ==
    map_sense_checked(sensitivity,
                      IF cache = None THEN Some(get_unit_convert) ELSE cache, par)

(***************************************************************************)
(* map_sense with the reference grid it reads: get_unit_convert from the   *)
(* date list, template.sense_emis and the meteorology, and the alignment   *)
(* of the physical timesteps.  A reference is a record of the date list    *)
(* dates, the timestep count sense_steps of template.sense_emis and the    *)
(* DENSA_J time series rhoj of a cell (the same on every day and in every  *)
(* cell); there is one layer, of thickness 1.                              *)
(***************************************************************************)
\* ppm_scale*kg_scale*mwair, represented by a number that every interpolated
\* density of the model divides
unit_scale == 1260

\* rhoj_interp that repeats the value of each source step over its reps
\* target steps (rhoj_interp[r:-1:reps] = rhoj[:-1]), in units of 1/(2*reps)
rhoj_interp_repeated(rhoj, target_steps, n) ==
    LET reps == (target_steps - 1) \div (Len(rhoj) - 1)
        a == n \div reps
    IN  IF n = target_steps - 1 THEN 2 * reps * rhoj[Len(rhoj)]
        ELSE 2 * reps * rhoj[a + 1]

\* rhoj_interp at target step n (from 0), in units of 1/(2*reps):
\* rhoj_interp[r:-1:reps] = (1-frac)*rhoj[:-1] + frac*rhoj[1:] with
\* frac = (2r+1)/(2reps), and rhoj_interp[-1] = rhoj[-1]
rhoj_interp(rhoj, target_steps, n) ==
    LET reps == (target_steps - 1) \div (Len(rhoj) - 1)
        a == n \div reps
        r == n % reps
    IN  IF n = target_steps - 1 THEN 2 * reps * rhoj[Len(rhoj)]
        ELSE (2 * reps - (2 * r + 1)) * rhoj[a + 1] + (2 * r + 1) * rhoj[a + 2]

\* get_unit_convert() for the reference ref: the dict or an error
get_unit_convert_of(ref) ==
    LET target_shape == <<ref.sense_steps, 1, NRows, NCols>>
        steps == Len(ref.rhoj) - 1
    IN  IF steps <= 0 \/ (target_shape[1] - 1) < steps
           \/ (target_shape[1] - 1) % steps # 0
        THEN [ok |-> FALSE, val |-> None]
        ELSE LET reps == (target_shape[1] - 1) \div steps
             IN  [ok |-> TRUE,
                  val |-> [date \in Range(ref.dates) |->
                      [shape |-> target_shape,
                       val |-> [idx \in Idx4(target_shape) |->
                           (unit_scale * 2 * reps)
                               \div rhoj_interp(ref.rhoj, target_shape[1], idx[1])]]]]

\* map_sense that loads the conversion arrays at every call
\* (if unit_convert_dict is None or True:)
map_sense_reloading(sensitivity, cache, par, p_tstep, ref) ==
    LET units == get_unit_convert_of(ref)
    IN  IF ~ units.ok
        THEN [ok |-> FALSE, val |-> None, cache |-> cache, ran |-> TRUE]
        ELSE LET r == map_sense_aligned(sensitivity, Some(units.val), par, p_tstep,
                                        ref.dates)
             IN  [ok |-> r.ok, val |-> r.val, cache |-> r.cache, ran |-> TRUE]

\* map_sense( sensitivity ) with the cache, the class parameters, the physical
\* timesteps and the reference: the result, the cache afterwards and whether
\* get_unit_convert ran
map_sense_on(sensitivity, cache, par, p_tstep, ref) ==
    IF cache = None
    THEN LET units == get_unit_convert_of(ref)
         IN  IF ~ units.ok
             THEN [ok |-> FALSE, val |-> None, cache |-> cache, ran |-> TRUE]
             ELSE LET r == map_sense_aligned(sensitivity, Some(units.val), par,
                                             p_tstep, ref.dates)
                  IN  [ok |-> r.ok, val |-> r.val, cache |-> r.cache, ran |-> TRUE]
    ELSE LET r == map_sense_aligned(sensitivity, cache, par, p_tstep, ref.dates)
         IN  [ok |-> r.ok, val |-> r.val, cache |-> r.cache, ran |-> FALSE]

\* the references: one or two days, template.sense_emis of 9, 7 or 5
\* timesteps, and DENSA_J of 4 steps and a boundary (constant or varying) or
\* of 2 steps and a boundary
References ==
    LET ref(dates, sense_steps, rhoj) ==
            [dates |-> dates, sense_steps |-> sense_steps, rhoj |-> rhoj]
    IN  {ref(<<1>>, 9, <<1, 1, 1, 1, 1>>), ref(<<1>>, 9, <<1, 3, 1, 3, 1>>),
         ref(<<1, 2>>, 9, <<1, 3, 1, 3, 1>>), ref(<<1>>, 9, <<1, 5, 1>>),
         ref(<<1>>, 5, <<1, 3, 1, 3, 1>>), ref(<<1>>, 7, <<1, 1, 1>>),
         ref(<<1>>, 7, <<1, 3, 1, 3, 1>>)}

\* an emission file of nstep timesteps of tsec seconds for one species, one
\* layer and one unknown
SenseFile(tsec, nstep) ==
    LET shape == <<nstep, 1, NRows, NCols>>
    IN  [sdate_ok |-> TRUE, edate_ok |-> TRUE, tsec |-> tsec,
         spcs |-> <<"CO2">>,
         emis |-> [spc \in {"CO2"} |-> Zeros4(shape)],
         unc_vector |-> <<1>>,
         corr_matrix |->
             [shape |-> <<Cardinal(shape), 1>>,
              val |-> [rc \in (1 .. Cardinal(shape)) \X (1 .. 1) |-> 1]]]

\* the physical grids: the class parameters PhysicalAdjointData.from_file
\* sets and the seconds of the physical timesteps, uniform (nstep steps of
\* tsec seconds) or of given lengths
SenseGrids ==
    LET grid(tsec, nstep, steps) ==
            [params |-> from_file("PhysicalAdjointData", NoParams,
                                  SenseFile(tsec, nstep)).params,
             tstep |-> steps]
        uniform(tsec, nstep) == grid(tsec, nstep, [n \in 1 .. nstep |-> tsec])
        h == 60 * 60
    IN  {uniform(daysec \div 4, 4), uniform(daysec \div 4, 8),
         uniform(daysec \div 2, 2), uniform(daysec \div 2, 4),
         uniform(daysec, 1), uniform(daysec, 2), uniform(2 * daysec, 1),
         uniform(daysec \div 8, 8),
         grid(daysec, 2, <<18 * h, 6 * h>>),
         grid(daysec, 3, <<18 * h, 12 * h, 18 * h>>),
         grid(daysec, 2, <<36 * h, 12 * h>>),
         grid(daysec, 2, <<12 * h, 36 * h>>)}

\* the cells and timesteps the sensitivities of the runs are concentrated at
SenseCells == {<<NRows - 1, 0>>}

\* SensitivityData for the reference ref: zero but 1 at timestep n of one
\* cell of one day, or 1 everywhere
Sensitivities(ref) ==
    LET shape == <<ref.sense_steps, 1, NRows, NCols>>
        impulse(d, n, cell) ==
            [file_data |-> [date \in Range(ref.dates) |->
                [spc \in {"CO2"} |->
                    [shape |-> shape,
                     val |-> [idx \in Idx4(shape) |->
                         IF date = d /\ idx[1] = n /\ <<idx[3], idx[4]>> = cell
                         THEN 1 ELSE 0]]]]]
        ones == [file_data |-> [date \in Range(ref.dates) |->
                    [spc \in {"CO2"} |->
                        [shape |-> shape, val |-> [idx \in Idx4(shape) |-> 1]]]]]
    IN  {ones} \cup {impulse(d, n, cell) : d \in Range(ref.dates),
                                          n \in 0 .. (ref.sense_steps - 1),
                                          cell \in SenseCells}

InitSense ==
    /\ weight_grid = << >> /\ obs_in = None /\ obs_out = None
    /\ frc_in = None /\ frc_out = None
    /\ \E g \in SenseGrids : params = g.params /\ tstep = g.tstep
    /\ ff_conflict = FALSE /\ ff_result = "None" /\ ff_inst = None
    /\ ff_differs = {} /\ ff_warned = {} /\ ff_sound = FALSE
    /\ phys_current = None /\ ctor_call = None
    /\ DriverIdle
    /\ reference \in References
    /\ sense_call = None
    /\ ArchiveIdle
    /\ HeapIdle

\* a call map_sense( sensitivity ): the module global unit_convert_dict is
\* assigned when get_unit_convert returned
MapSense ==
    /\ \E sensitivity \in Sensitivities(reference) :
           LET r == map_sense_on(sensitivity, unit_convert_dict, params, tstep,
                                 reference)
           IN  /\ unit_convert_dict' = r.cache
               /\ sense_call' = Some([arg |-> sensitivity, dates |-> reference.dates,
                                      ran |-> r.ran, ok |-> r.ok, val |-> r.val])
    /\ UNCHANGED <<obsvars, parvars, arcvars, heapvars, reference, tstep>>
    /\ UNCHANGED <<background, observed_value, fn, status, pc, env, oplog, cleaned,
                   ret, probe>>

\* the reference changes between two calls: another date list, other
\* templates or another meteorology
ChangeReference ==
    /\ sense_call # None
    /\ reference' \in References \ {reference}
    /\ UNCHANGED <<obsvars, parvars, drvvars, arcvars, heapvars, tstep, sense_call>>

NextSense == MapSense \/ ChangeReference

SpecSense == InitSense /\ [][NextSense]_vars

(***************************************************************************)
(* Claims about map_sense over the reference grid.                         *)
(***************************************************************************)
\* the last call of map_sense and whether it returned
SenseCalled == sense_call # None
SenseReturned == SenseCalled /\ Val(sense_call).ok

\* the sum over the physical timesteps of the returned emis of species spc
\* at layer l, row r, column c
PhysicalTotal(spc, l, r, c) ==
    LET out == Val(sense_call).val.emis[spc]
    IN  SumTo([t \in 1 .. out.shape[1] |-> out.val[<<t - 1, l, r, c>>]], out.shape[1])

\* the sum over the days and over the timesteps of a day but the trailing
\* one of the sensitivities of the last call times the conversion factors
ConvertedTotal(spc, l, r, c) ==
    LET call == Val(sense_call)
        units == Val(unit_convert_dict)
        day(date) ==
            LET sense == call.arg.file_data[date][spc]
                steps == sense.shape[1] - 1
            IN  SumTo([n \in 1 .. steps |->
                          sense.val[<<n - 1, l, r, c>>]
                              * units[date].val[<<n - 1, l, r, c>>]], steps)
    IN  SumTo([d \in 1 .. Len(call.dates) |-> day(call.dates[d])], Len(call.dates))

\* C14: whenever map_sense returned, for each species, retained layer, row
\* and column the sum over the physical timesteps of the output equals the
\* sum over all days of the unit-converted sensitivities of all timesteps
\* but the trailing boundary step of each day: every model timestep went to
\* exactly one physical timestep and the boundary step contributes nothing
C14_Conservation ==
    SenseReturned =>
        \A spc \in DOMAIN Val(sense_call).val.emis :
            \A l \in 0 .. (Val(params.nlays_emis) - 1), r \in Rows, c \in Cols :
                PhysicalTotal(spc, l, r, c) = ConvertedTotal(spc, l, r, c)

\* map_sense returned for two days of sensitivities that are 1 everywhere,
\* accumulated into four physical timesteps that all received a share
C14_Witness ==
    /\ SenseReturned
    /\ Len(Val(sense_call).dates) = 2
    /\ Len(tstep) = 4
    /\ \A date \in Range(Val(sense_call).dates) :
           \A idx \in DOMAIN Val(sense_call).arg.file_data[date]["CO2"].val :
               Val(sense_call).arg.file_data[date]["CO2"].val[idx] = 1
    /\ \A t \in 0 .. 3 : Val(sense_call).val.emis["CO2"].val[<<t, 0, 0, 0>>] > 0

\* the second at which physical timestep n (from 1) begins
StepStart(n) == SumTo([k \in 1 .. (n - 1) |-> tstep[k]], n - 1)

\* some physical timestep length is not a multiple of the model timestep
StepNotMultiple ==
    \E n \in 1 .. Len(tstep) : tstep[n] % hms_to_sec(emis_record.TSTEP) # 0

\* some physical timestep begins inside a day of the last call and ends
\* after that day
StepStraddlesDay ==
    \E n \in 1 .. Len(tstep), d \in 1 .. Len(Val(sense_call).dates) :
        /\ StepStart(n) % daysec # 0
        /\ StepStart(n) < d * daysec
        /\ d * daysec < StepStart(n) + tstep[n]

\* the physical timesteps end before the days of the last call do
StepsFallShort ==
    StepStart(Len(tstep) + 1) < Len(Val(sense_call).dates) * daysec

\* the timestep count of the sensitivities of the last call is not a
\* multiple of the timestep count of the model input
SenseStepsNotMultiple ==
    \E date \in Range(Val(sense_call).dates) :
        (Val(sense_call).arg.file_data[date]["CO2"].shape[1] - 1)
            % (emis_record.shape[1] - 1) # 0

LoadedRatioTwo ==
    /\ sense_call' # sense_call
    /\ Val(sense_call').ran
    /\ unit_convert_dict' # None
    /\ Len(reference.rhoj) = 4 + 1
    /\ reference.sense_steps = 8 + 1

\* the returned emis at the physical timestep a of 4 timesteps as long as
\* the model's is the sum of the 2 converted sensitivities of the target
\* steps 2a and 2a+1
AdjointSumsPairs ==
    (Val(sense_call').ok /\ tstep = [n \in 1 .. 4 |-> hms_to_sec(emis_record.TSTEP)])
        => \A date \in Range(reference.dates), a \in 0 .. 3, r \in Rows, c \in Cols :
               LET sense == Val(sense_call').arg.file_data[date]["CO2"].val
                   units == Val(unit_convert_dict')[date].val
               IN  Val(sense_call').val.emis["CO2"].val[<<a, 0, r, c>>]
                       = sense[<<2 * a, 0, r, c>>] * units[<<2 * a, 0, r, c>>]
                         + sense[<<2 * a + 1, 0, r, c>>] * units[<<2 * a + 1, 0, r, c>>]

\* the final boundary step of the source is copied once to the final target
\* step
BoundaryCopiedOnce ==
    \A date \in Range(reference.dates), r \in Rows, c \in Cols :
        Val(unit_convert_dict')[date].val[<<8, 0, r, c>>] * reference.rhoj[5]
            = unit_scale

\* C16 as stated: with 4 source steps and 8 target steps the expansion
\* places the value of each source step at exactly 2 consecutive target
\* steps, the final boundary step is copied once, and the adjoint sums
\* those 2 target steps back into 1 source step
C16_CopyExpansion ==
    [][LoadedRatioTwo =>
          /\ \A date \in Range(reference.dates), a \in 0 .. 3, b \in 0 .. 1,
                    r \in Rows, c \in Cols :
                 Val(unit_convert_dict')[date].val[<<2 * a + b, 0, r, c>>]
                         * reference.rhoj[a + 1]
                     = unit_scale
          /\ BoundaryCopiedOnce
          /\ AdjointSumsPairs]_vars

\* C16 amended: with 4 source steps and 8 target steps the expansion gives
\* the 2 consecutive target steps of source step a the values interpolated
\* linearly between source steps a and a+1 at the fractions 1/4 and 3/4
\* (the value of source step a where the two are equal), the final boundary
\* step is copied once, and the adjoint sums those 2 target steps back into
\* 1 source step
C16_InterpolatedExpansion ==
    [][LoadedRatioTwo =>
          /\ \A date \in Range(reference.dates), a \in 0 .. 3, b \in 0 .. 1,
                    r \in Rows, c \in Cols :
                 Val(unit_convert_dict')[date].val[<<2 * a + b, 0, r, c>>]
                         * ((3 - 2 * b) * reference.rhoj[a + 1]
                            + (1 + 2 * b) * reference.rhoj[a + 2])
                     = 4 * unit_scale
          /\ BoundaryCopiedOnce
          /\ AdjointSumsPairs]_vars

\* map_sense returned for one day after get_unit_convert ran on 4 source
\* steps whose values differ, 8 target steps and 4 physical timesteps as long
\* as the model's, for a sensitivity at the second target step of a pair
C16_Witness ==
    /\ SenseReturned
    /\ Val(sense_call).ran
    /\ reference = [dates |-> <<1>>, sense_steps |-> 9, rhoj |-> <<1, 3, 1, 3, 1>>]
    /\ unit_convert_dict = Some(get_unit_convert_of(reference).val)
    /\ tstep = <<21600, 21600, 21600, 21600>>
    /\ Val(sense_call).arg.file_data[1]["CO2"].val[<<3, 0, NRows - 1, 0>>] = 1
    /\ Val(sense_call).val.emis["CO2"].val[<<1, 0, NRows - 1, 0>>] > 0

\* C25: whenever map_sense returned, the step budget of every physical
\* timestep has been drained over the processed days: the physical timesteps
\* end where the days of the call end, so none keeps the initial zero only
\* because it was never reached
C25_NoStepLeftOut ==
    SenseReturned =>
        StepStart(Len(tstep) + 1) = Len(Val(sense_call).dates) * daysec

\* C19: over any sequence of map_sense calls get_unit_convert runs only
\* while the cache is empty, and then it runs; a get_unit_convert that fails
\* leaves the cache empty; once the cache is populated no step recomputes or
\* modifies it
C19_PopulatedOnce ==
    [][/\ (sense_call' # sense_call)
              => (Val(sense_call').ran <=> unit_convert_dict = None)
       /\ (sense_call' # sense_call /\ unit_convert_dict = None)
              => (unit_convert_dict' # None <=> get_unit_convert_of(reference).ok)
       /\ unit_convert_dict # None => unit_convert_dict' = unit_convert_dict]_vars

\* a call of map_sense returned without running get_unit_convert, on the
\* cache an earlier call populated
C19_Witness ==
    /\ SenseReturned
    /\ ~ Val(sense_call).ran
    /\ unit_convert_dict # None

\* C20: after the reference grid changed, the cache is invalidated, so that
\* a map_sense call that returns has used the factors computed for the
\* reference of the call and never those of an earlier reference
C20_NoStaleFactors ==
    [][(sense_call' # sense_call /\ Val(sense_call').ok)
           => unit_convert_dict' = Some(get_unit_convert_of(reference).val)]_vars

(***************************************************************************)
(* The data classes and transforms of the pipeline that the driver calls   *)
(* besides obs_operator, calc_forcing and map_sense, after sections 3, 4.2 *)
(* and 4.3 of the specification.                                           *)
(***************************************************************************)
\* position of cell idx of species number s (from 0) in the flat vector of all
\* cells (from 1)
flat_index(par, s, idx) ==
    ((((s * Val(par.nstep) + idx[1]) * Val(par.nlays_emis) + idx[2])
          * Val(par.nrows) + idx[3]) * Val(par.ncols) + idx[4]) + 1

species_number(par, spc) == (CHOOSE n \in 1 .. Len(Val(par.spcs)) : Val(par.spcs)[n] = spc) - 1

\* UnknownData -> PhysicalData:
\* physical = prior + correlation_matrix . ( uncertainty_vector * unknown_vector )
uncondition(par, prior, unknown) ==
    IF Len(unknown.value) # Val(par.nunknowns)
    THEN [ok |-> FALSE, val |-> None]
    ELSE
    LET n == Val(par.nunknowns)
        unc == Val(par.emis_unc_vector)
        corr == Val(par.emis_corr_matrix)
        delta(a) == SumTo([k \in 1 .. n |-> corr.val[<<a, k>>] * (unc[k] * unknown.value[k])], n)
        emis_dict == [spc \in Range(Val(par.spcs)) |->
                         [shape |-> prior.emis[spc].shape,
                          val |-> [idx \in DOMAIN prior.emis[spc].val |->
                                      prior.emis[spc].val[idx]
                                      + delta(flat_index(par, species_number(par, spc), idx))]]]
    IN  IF ~ init_ok(par, emis_dict) THEN [ok |-> FALSE, val |-> None]
        ELSE [ok |-> TRUE, val |-> new_instance("PhysicalData", par, emis_dict)]

UnknownValues == (0 - MaxVal) .. MaxVal

\* PhysicalData -> UnknownData: the vector that uncondition expands to the field
condition(par, prior, physical) ==
    LET n == Val(par.nunknowns)
        fits(v) == LET u == uncondition(par, prior, [cls |-> "UnknownData", value |-> v])
                   IN  u.ok /\ u.val.emis = physical.emis
    IN  IF \E v \in [1 .. n -> UnknownValues] : fits(v)
        THEN [ok |-> TRUE,
              val |-> [cls |-> "UnknownData",
                       value |-> CHOOSE v \in [1 .. n -> UnknownValues] : fits(v)]]
        ELSE [ok |-> FALSE, val |-> None]

\* PhysicalAdjointData -> UnknownData:
\* gradient = uncertainty_vector * ( correlation_matrix^T . physical_adjoint )
condition_adjoint(par, physical_adjoint) ==
    LET n == Val(par.nunknowns)
        unc == Val(par.emis_unc_vector)
        corr == Val(par.emis_corr_matrix)
        spcs == Val(par.spcs)
        column(k) ==
            SumTo([s \in 1 .. Len(spcs) |->
                      LET arr == physical_adjoint.emis[spcs[s]]
                          cells == Val(par.nstep) * Val(par.nlays_emis)
                                       * Val(par.nrows) * Val(par.ncols)
                      IN  SumTo([a \in 1 .. cells |->
                                    LET idx == CHOOSE i \in DOMAIN arr.val :
                                                   flat_index(par, 0, i) = a
                                    IN  corr.val[<<(s - 1) * cells + a, k>>] * arr.val[idx]],
                                cells)],
                  Len(spcs))
    IN  [ok |-> TRUE,
         val |-> [cls |-> "UnknownData", value |-> [k \in 1 .. n |-> unc[k] * column(k)]]]

\* the physical timestep that holds model step m (from 0) of day number d (from 1)
physical_step(par, d, m) ==
    (((d - 1) * daysec) + m * hms_to_sec(emis_record.TSTEP)) \div Val(par.tsec)

\* PhysicalData -> ModelInputData: every model step takes the value of its
\* physical timestep; the final step of a day repeats the step before it
prepare_model(par, physical) ==
    LET m_len == daysec \div hms_to_sec(emis_record.TSTEP)
    IN  [ok |-> TRUE,
         val |-> [cls |-> "ModelInputData",
                  emis |-> [d \in 1 .. Len(datelist) |->
                      [spc \in Range(Val(par.spcs)) |->
                          [shape |-> emis_record.shape,
                           val |-> [idx \in Idx4(emis_record.shape) |->
                               IF idx[2] < Val(par.nlays_emis)
                               THEN physical.emis[spc].val[
                                        <<physical_step(par, d, Min(idx[1], m_len - 1)),
                                          idx[2], idx[3], idx[4]>>]
                               ELSE 0]]]]]]

\* sensitivity steps per model step
sense_ratio == (sense_shape[1] - 1) \div (emis_record.shape[1] - 1)

\* ModelInputData -> ModelOutputData (the forward simulator, an external
\* program): a linear model without transport, the column of a cell collects
\* the unit-converted emissions of the cell over all steps but the final one
run_model(par, model_in) ==
    LET units == get_unit_convert
        steps == sense_shape[1] - 1
        column(c) ==
            SumTo([d \in 1 .. Len(datelist) |->
                SumTo([s \in 1 .. Len(Val(par.spcs)) |->
                    SumTo([n \in 1 .. steps |->
                        SumTo([l \in 1 .. emis_record.shape[2] |->
                            units[datelist[d]].val[<<n - 1, l - 1, c[1], c[2]>>]
                            * model_in.emis[d][Val(par.spcs)[s]].val[
                                  <<(n - 1) \div sense_ratio, l - 1, c[1], c[2]>>]],
                            emis_record.shape[2])],
                        steps)],
                    Len(Val(par.spcs)))],
                Len(datelist))
    IN  [ok |-> TRUE,
         val |-> [cls |-> "ModelOutputData", value |-> [c \in Cells |-> column(c)]]]

\* AdjointForcingData -> SensitivityData (the adjoint simulator): the transpose
\* of the forward simulator, the sensitivity to the emission of a cell at any
\* step is the forcing of the cell
run_adjoint(par, adj_forcing) ==
    [ok |-> TRUE,
     val |-> [cls |-> "SensitivityData",
              file_data |-> [date \in Range(datelist) |->
                  [spc \in Range(Val(par.spcs)) |->
                      [shape |-> sense_shape,
                       val |-> [idx \in Idx4(sense_shape) |->
                                   adj_forcing.value[<<idx[3], idx[4]>>]]]]]]]

\* ObservationData.get_residual: residual = observed.value - simulated.value
get_residual(observed, simulated) ==
    [cls |-> "ObservationData",
     value |-> [i \in 1 .. Len(observed.value) |-> observed.value[i] - simulated.value[i]]]

\* inverse error variance of observation i (diagonal covariance)
obs_precision(i) == 1 + (i % 2)

\* ObservationData.error_weight: each residual times its inverse error variance
error_weight(residual) ==
    [cls |-> "ObservationData",
     value |-> [i \in 1 .. Len(residual.value) |-> residual.value[i] * obs_precision(i)]]

(***************************************************************************)
(* The driver (_main_driver.py).  A function body is the sequence of its   *)
(* statements; a statement names its operation, the target class of a      *)
(* transform, the local variable it assigns and the local variables it     *)
(* reads.  Scalars of the cost are counted in halves, so that 0.5 * n is   *)
(* the integer n.                                                          *)
(***************************************************************************)
Stmt(op, cls, out, args) == [op |-> op, cls |-> cls, out |-> out, args |-> args]

\* cost_func: the forward chain
cost_func_forward == <<
    Stmt("get_background", "", "bg_physical", << >>),
    Stmt("transform", "UnknownData", "bg_unknown", <<"bg_physical">>),
    Stmt("get_observed", "", "observed", << >>),
    Stmt("UnknownData", "", "unknown", <<"vector">>),
    Stmt("transform", "PhysicalData", "physical", <<"unknown">>),
    Stmt("transform", "ModelInputData", "model_in", <<"physical">>),
    Stmt("transform", "ModelOutputData", "model_out", <<"model_in">>),
    Stmt("transform", "ObservationData", "simulated", <<"model_out">>),
    Stmt("get_residual", "", "residual", <<"observed", "simulated">>),
    Stmt("error_weight", "", "w_residual", <<"residual">>) >>

\* cost_func: the two terms of the cost and their sum
cost_func_terms == <<
    Stmt("get_vector", "", "bg_vector", <<"bg_unknown">>),
    Stmt("get_vector", "", "un_vector", <<"unknown">>),
    Stmt("half_sum_sq_diff", "", "bg_cost", <<"un_vector", "bg_vector">>),
    Stmt("get_vector", "", "res_vector", <<"residual">>),
    Stmt("get_vector", "", "wres_vector", <<"w_residual">>),
    Stmt("half_sum_prod", "", "ob_cost", <<"res_vector", "wres_vector">>),
    Stmt("add", "", "cost", <<"bg_cost", "ob_cost">>) >>

\* cost_func: cleanup, log and return
cost_func_exit == <<
    Stmt("cleanup", "", "", <<"unknown">>),
    Stmt("cleanup", "", "", <<"physical">>),
    Stmt("cleanup", "", "", <<"model_in">>),
    Stmt("cleanup", "", "", <<"model_out">>),
    Stmt("cleanup", "", "", <<"simulated">>),
    Stmt("cleanup", "", "", <<"residual">>),
    Stmt("cleanup", "", "", <<"w_residual">>),
    Stmt("log", "", "", <<"cost">>),
    Stmt("return", "", "", <<"cost">>) >>

\* cost_func with the observation term left unweighted
\* (ob_cost = 0.5 * np.sum( res_vector * res_vector ))
cost_func_body_unweighted ==
    cost_func_forward
    \o [cost_func_terms EXCEPT
           ![6] = Stmt("half_sum_prod", "", "ob_cost", <<"res_vector", "res_vector">>)]
    \o cost_func_exit

\* cost_func with the weighted residual read from the wrong variable
\* (wres_vector = observed.get_vector())
cost_func_body_wrong_vector ==
    cost_func_forward
    \o [cost_func_terms EXCEPT
           ![5] = Stmt("get_vector", "", "wres_vector", <<"observed">>)]
    \o cost_func_exit

cost_func_body == cost_func_forward \o cost_func_terms \o cost_func_exit

\* gradient_func: the forward chain
gradient_func_forward == <<
    Stmt("get_background", "", "bg_physical", << >>),
    Stmt("transform", "UnknownData", "bg_unknown", <<"bg_physical">>),
    Stmt("get_observed", "", "observed", << >>),
    Stmt("UnknownData", "", "unknown", <<"vector">>),
    Stmt("transform", "PhysicalData", "physical", <<"unknown">>),
    Stmt("transform", "ModelInputData", "model_in", <<"physical">>),
    Stmt("transform", "ModelOutputData", "model_out", <<"model_in">>),
    Stmt("transform", "ObservationData", "simulated", <<"model_out">>),
    Stmt("get_residual", "", "residual", <<"observed", "simulated">>),
    Stmt("error_weight", "", "w_residual", <<"residual">>) >>

\* gradient_func: the adjoint chain
gradient_func_adjoint == <<
    Stmt("transform", "AdjointForcingData", "adj_forcing", <<"w_residual">>),
    Stmt("transform", "SensitivityData", "model_sensitivity", <<"adj_forcing">>),
    Stmt("transform", "PhysicalAdjointData", "physical_sensitivity", <<"model_sensitivity">>),
    Stmt("transform", "UnknownData", "unknown_gradient", <<"physical_sensitivity">>) >>

\* gradient_func: the two terms of the gradient and their sum
gradient_func_terms == <<
    Stmt("get_vector", "", "bg_vector", <<"bg_unknown">>),
    Stmt("get_vector", "", "un_vector", <<"unknown">>),
    Stmt("sub", "", "bg_grad", <<"un_vector", "bg_vector">>),
    Stmt("get_vector", "", "unknown_gradient_vector", <<"unknown_gradient">>),
    Stmt("add_vec", "", "gradient", <<"bg_grad", "unknown_gradient_vector">>) >>

\* gradient_func: log, cleanup and return
gradient_func_exit == <<
    Stmt("log", "", "", <<"gradient">>),
    Stmt("cleanup", "", "", <<"unknown">>),
    Stmt("cleanup", "", "", <<"physical">>),
    Stmt("cleanup", "", "", <<"model_in">>),
    Stmt("cleanup", "", "", <<"model_out">>),
    Stmt("cleanup", "", "", <<"simulated">>),
    Stmt("cleanup", "", "", <<"residual">>),
    Stmt("cleanup", "", "", <<"w_residual">>),
    Stmt("cleanup", "", "", <<"adj_forcing">>),
    Stmt("cleanup", "", "", <<"model_sensitivity">>),
    Stmt("cleanup", "", "", <<"physical_sensitivity">>),
    Stmt("cleanup", "", "", <<"unknown_gradient">>),
    Stmt("return", "", "", <<"gradient">>) >>

\* gradient_func with the background term reversed
\* (bg_grad = bg_vector - un_vector)
gradient_func_body_reversed ==
    gradient_func_forward \o gradient_func_adjoint
    \o [gradient_func_terms EXCEPT
           ![3] = Stmt("sub", "", "bg_grad", <<"bg_vector", "un_vector">>)]
    \o gradient_func_exit

\* gradient_func with its own residual
\* (residual = d.ObservationData.get_residual( simulated, observed ))
gradient_func_body_own_residual ==
    [gradient_func_forward EXCEPT
        ![9] = Stmt("get_residual", "", "residual", <<"simulated", "observed">>)]
    \o gradient_func_adjoint \o gradient_func_terms \o gradient_func_exit

gradient_func_body ==
    gradient_func_forward \o gradient_func_adjoint \o gradient_func_terms
    \o gradient_func_exit

Body(f) == IF f = "cost_func" THEN cost_func_body ELSE gradient_func_body

LocalNames ==
    {"vector"} \cup
    UNION {UNION {{Body(f)[n].out} \cup Range(Body(f)[n].args) : n \in 1 .. Len(Body(f))} :
              f \in {"cost_func", "gradient_func"}}

\* transform( x, cls ): the transform function registered for the pair of
\* classes, with the class parameters par and the cache of map_sense
transform(x, cls, par, cache) ==
    LET keep(r) == [ok |-> r.ok, val |-> r.val, cache |-> cache]
    IN  IF x.cls = "PhysicalData" /\ cls = "UnknownData"
        THEN keep(condition(par, ff_inst, x))
        ELSE IF x.cls = "UnknownData" /\ cls = "PhysicalData"
        THEN keep(uncondition(par, ff_inst, x))
        ELSE IF x.cls = "PhysicalData" /\ cls = "ModelInputData"
        THEN keep(prepare_model(par, x))
        ELSE IF x.cls = "ModelInputData" /\ cls = "ModelOutputData"
        THEN keep(run_model(par, x))
        ELSE IF x.cls = "ModelOutputData" /\ cls = "ObservationData"
        THEN [ok |-> TRUE,
              val |-> [cls |-> "ObservationData", value |-> obs_operator(x.value)],
              cache |-> cache]
        ELSE IF x.cls = "ObservationData" /\ cls = "AdjointForcingData"
        THEN [ok |-> TRUE,
              val |-> [cls |-> "AdjointForcingData", value |-> calc_forcing(x.value)],
              cache |-> cache]
        ELSE IF x.cls = "AdjointForcingData" /\ cls = "SensitivityData"
        THEN keep(run_adjoint(par, x))
        ELSE IF x.cls = "SensitivityData" /\ cls = "PhysicalAdjointData"
        THEN map_sense(x, cache, par)
        ELSE IF x.cls = "PhysicalAdjointData" /\ cls = "UnknownData"
        THEN keep(condition_adjoint(par, x))
        ELSE [ok |-> FALSE, val |-> None, cache |-> cache]

\* the value a statement computes from the local variables e, and the cache
\* of map_sense after it
Exec(stmt, e, par, cache) ==
    LET arg(n) == Val(e[stmt.args[n]])
        value(v) == [ok |-> TRUE, val |-> v, cache |-> cache]
    IN  CASE stmt.op = "get_background" -> value(background)
          [] stmt.op = "get_observed" ->
                 value([cls |-> "ObservationData", value |-> observed_value])
          [] stmt.op = "UnknownData" ->
                 value([cls |-> "UnknownData", value |-> arg(1)])
          [] stmt.op = "transform" -> transform(arg(1), stmt.cls, par, cache)
          [] stmt.op = "get_residual" -> value(get_residual(arg(1), arg(2)))
          [] stmt.op = "error_weight" -> value(error_weight(arg(1)))
          [] stmt.op = "get_vector" -> value(arg(1).value)
          [] stmt.op = "half_sum_sq_diff" ->
                 value(SumTo([k \in 1 .. Len(arg(1)) |->
                                 (arg(1)[k] - arg(2)[k]) * (arg(1)[k] - arg(2)[k])],
                             Len(arg(1))))
          [] stmt.op = "half_sum_prod" ->
                 value(SumTo([k \in 1 .. Len(arg(1)) |-> arg(1)[k] * arg(2)[k]],
                             Len(arg(1))))
          [] stmt.op = "add" -> value(arg(1) + arg(2))
          [] stmt.op = "sub" ->
                 value([k \in 1 .. Len(arg(1)) |-> arg(1)[k] - arg(2)[k]])
          [] stmt.op = "add_vec" ->
                 value([k \in 1 .. Len(arg(1)) |-> arg(1)[k] + arg(2)[k]])
          [] OTHER -> value(None)

\* the statements of a body from number n on, as one evaluation: the returned
\* value (None if a statement raises) and the local variables at the end
RECURSIVE RunFrom(_, _, _, _, _)
RunFrom(body, n, e, par, cache) ==
    LET stmt == body[n]
    IN  IF stmt.op = "return" THEN [ok |-> TRUE, ret |-> e[stmt.args[1]], env |-> e]
        ELSE IF stmt.op \in {"cleanup", "log"} THEN RunFrom(body, n + 1, e, par, cache)
        ELSE LET r == Exec(stmt, e, par, cache)
             IN  IF ~ r.ok THEN [ok |-> FALSE, ret |-> None, env |-> e]
                 ELSE RunFrom(body, n + 1, [e EXCEPT ![stmt.out] = Some(r.val)],
                              par, r.cache)

NewEnv(v) == [name \in LocalNames |-> IF name = "vector" THEN Some(v) ELSE None]

\* cost_func( vector ) and gradient_func( vector ) in the current state
cost_func(v) == RunFrom(cost_func_body, 1, NewEnv(v), params, unit_convert_dict)
gradient_func(v) == RunFrom(gradient_func_body, 1, NewEnv(v), params, unit_convert_dict)

(***************************************************************************)
(* Specification of the driver: the minimizer calls cost_func and          *)
(* gradient_func any number of times, one call at a time.                  *)
(***************************************************************************)
Vectors == [1 .. 2 -> UnknownValues] \cup {<<0>>}

\* weight maps of the run: every observation sees the first cell, or
\* observation i sees the cells of row i
DriverGrids ==
    {[i \in 1 .. NObs |-> [c \in {<<0, 0>>} |-> MaxWeight]],
     [i \in 1 .. NObs |-> [c \in {(i - 1) % NRows} \X Cols |-> 1 + (c[2] % MaxWeight)]]}

Init ==
    LET prior == from_file("PhysicalData", NoParams, prior_file)
    IN  /\ params = prior.params
        /\ ff_conflict = FALSE
        /\ ff_result = prior.result
        /\ ff_inst = prior.inst
        /\ ff_differs = {}
        /\ ff_warned = prior.warned
        /\ ff_sound = TRUE
        /\ phys_current = None
        /\ ctor_call = None
        /\ weight_grid \in DriverGrids
        /\ obs_in = None
        /\ obs_out = None
        /\ frc_in = None
        /\ frc_out = None
        /\ unit_convert_dict = None
        /\ \E b \in {<<0, 0>>, <<1, 0 - 1>>} :
               background = uncondition(prior.params, prior.inst,
                                        [cls |-> "UnknownData", value |-> b]).val
        /\ observed_value \in {[i \in 1 .. NObs |-> 0], [i \in 1 .. NObs |-> i + 2]}
        /\ fn = "None"
        /\ status = "idle"
        /\ pc = 0
        /\ env = << >>
        /\ oplog = << >>
        /\ cleaned = {}
        /\ ret = None
        /\ probe = None
        /\ SenseIdle
        /\ ArchiveIdle
        /\ HeapIdle

\* the minimizer calls cost_func( vector ) or gradient_func( vector )
Call ==
    /\ status # "running"
    /\ \E f \in {"cost_func", "gradient_func"}, v \in Vectors :
           /\ fn' = f
           /\ env' = NewEnv(v)
    /\ status' = "running"
    /\ pc' = 1
    /\ oplog' = << >>
    /\ cleaned' = {}
    /\ ret' = None
    /\ UNCHANGED <<obsvars, snsvars, arcvars, heapvars, parvars, unit_convert_dict, background, observed_value, probe>>

Running(ops) == status = "running" /\ Body(fn)[pc].op \in ops

ValueOps == {"get_background", "get_observed", "UnknownData", "transform",
             "get_residual", "error_weight", "get_vector", "half_sum_sq_diff",
             "half_sum_prod", "add", "sub", "add_vec"}

Logged(stmt) == <<stmt.op, stmt.cls, stmt.out, stmt.args>>

\* the call of get_unit_convert that a statement makes when it fills the cache
CacheFill(before, after) ==
    IF before = None /\ after # None
    THEN <<<<"get_unit_convert", "", "unit_convert_dict", << >>>>>>
    ELSE << >>

\* a statement that assigns a local variable completes
Assign ==
    /\ Running(ValueOps)
    /\ LET stmt == Body(fn)[pc]
           r == Exec(stmt, env, params, unit_convert_dict)
       IN  /\ r.ok
           /\ env' = [env EXCEPT ![stmt.out] = Some(r.val)]
           /\ unit_convert_dict' = r.cache
           /\ oplog' = Append(oplog \o CacheFill(unit_convert_dict, r.cache), Logged(stmt))
    /\ pc' = pc + 1
    /\ UNCHANGED <<obsvars, snsvars, arcvars, heapvars, parvars, background, observed_value, fn, status, cleaned,
                   ret, probe>>

\* a statement raises: the exception leaves the function
Raise ==
    /\ Running(ValueOps)
    /\ LET stmt == Body(fn)[pc]
           r == Exec(stmt, env, params, unit_convert_dict)
       IN  /\ ~ r.ok
           /\ unit_convert_dict' = r.cache
           /\ oplog' = Append(oplog \o CacheFill(unit_convert_dict, r.cache), Logged(stmt))
    /\ status' = "raised"
    /\ UNCHANGED <<obsvars, snsvars, arcvars, heapvars, parvars, background, observed_value, fn, pc, env, cleaned,
                   ret, probe>>

\* x.cleanup()
Cleanup ==
    /\ Running({"cleanup"})
    /\ cleaned' = cleaned \cup {Body(fn)[pc].args[1]}
    /\ oplog' = Append(oplog, Logged(Body(fn)[pc]))
    /\ pc' = pc + 1
    /\ UNCHANGED <<obsvars, snsvars, arcvars, heapvars, parvars, unit_convert_dict, background, observed_value, fn,
                   status, env, ret, probe>>

\* logger.info( ... )
Log ==
    /\ Running({"log"})
    /\ oplog' = Append(oplog, Logged(Body(fn)[pc]))
    /\ pc' = pc + 1
    /\ UNCHANGED <<obsvars, snsvars, arcvars, heapvars, parvars, unit_convert_dict, background, observed_value, fn,
                   status, env, cleaned, ret, probe>>

\* return cost / return np.array( gradient )
Return ==
    /\ Running({"return"})
    /\ ret' = env[Body(fn)[pc].args[1]]
    /\ oplog' = Append(oplog, Logged(Body(fn)[pc]))
    /\ status' = "returned"
    /\ UNCHANGED <<obsvars, snsvars, arcvars, heapvars, parvars, unit_convert_dict, background, observed_value, fn,
                   pc, env, cleaned, probe>>

\* an observer keeps the first returned call it chooses to remember
Remember ==
    /\ status = "returned"
    /\ probe = None
    /\ probe' = Some([fn |-> fn, ret |-> ret, env |-> env, oplog |-> oplog])
    /\ UNCHANGED <<obsvars, snsvars, arcvars, heapvars, parvars, unit_convert_dict, background, observed_value, fn,
                   status, pc, env, oplog, cleaned, ret>>

Next == Call \/ Assign \/ Raise \/ Cleanup \/ Log \/ Return \/ Remember

Spec == Init /\ [][Next]_vars

(***************************************************************************)
(* Claims about the release of the representations of a call.              *)
(***************************************************************************)
\* the operations that create a representation (an object of a data class)
RepresentationOps == {"get_background", "get_observed", "UnknownData", "transform",
                      "get_residual", "error_weight"}

\* the local variables that hold the representations the current call
\* created so far
Created ==
    {oplog[k][3] : k \in {j \in 1 .. Len(oplog) : oplog[j][1] \in RepresentationOps}}

\* some statement of the current call read a representation after its cleanup
ReadAfterCleanup ==
    \E i, j \in 1 .. Len(oplog) :
        /\ i < j
        /\ oplog[i][1] = "cleanup"
        /\ oplog[i][4][1] \in Range(oplog[j][4])

\* C17: when cost_func or gradient_func has returned, cleanup() has been
\* called on every representation created during the call, the
\* background-derived unknown vector bg_unknown included, and no
\* representation was read after its cleanup
C17_AllReleasedAtReturn ==
    status = "returned"
        => (/\ "bg_unknown" \in Created
            /\ Created \subseteq cleaned
            /\ ~ ReadAfterCleanup)

\* C18: when a stage of cost_func or gradient_func has raised, cleanup()
\* has been called on every representation the call had created
C18_AllReleasedAtError ==
    status = "raised" => Created \subseteq cleaned

(***************************************************************************)
(* Specification of the two operators on arbitrary inputs.                 *)
(***************************************************************************)
Fields == [Cells -> 0 .. MaxVal]
Residuals == [1 .. NObs -> (0 - MaxVal) .. MaxVal]

InitObs ==
    /\ weight_grid \in [1 .. NObs -> WeightMaps]
    /\ params = NoParams
    /\ ff_conflict = FALSE
    /\ ff_result = "None"
    /\ ff_inst = None
    /\ ff_differs = {}
    /\ ff_warned = {}
    /\ ff_sound = FALSE
    /\ phys_current = None
    /\ ctor_call = None
    /\ DriverIdle
    /\ SenseIdle
    /\ ArchiveIdle
    /\ HeapIdle
    /\ obs_in = None
    /\ obs_out = None
    /\ frc_in = None
    /\ frc_out = None

\* simulated = obs_operator( model_output )
ObsOperator ==
    \E value \in Fields :
        /\ obs_in' = value
        /\ obs_out' = obs_operator(value)
        /\ UNCHANGED <<weight_grid, frc_in, frc_out, parvars, drvvars, snsvars, arcvars, heapvars>>

\* adj_forcing = calc_forcing( w_residual )
CalcForcing ==
    \E value \in Residuals :
        /\ frc_in' = value
        /\ frc_out' = calc_forcing(value)
        /\ UNCHANGED <<weight_grid, obs_in, obs_out, parvars, drvvars, snsvars, arcvars, heapvars>>

NextObs == ObsOperator \/ CalcForcing

SpecObs == InitObs /\ [][NextObs]_vars

(***************************************************************************)
(* Reference sums, written over the whole grid in row-major order and over *)
(* the observations in index order.                                        *)
(***************************************************************************)
\* sum of term[c] over every cell c of the grid
GridSum(term) ==
    SumTo([k \in 1 .. (NRows * NCols) |->
              term[<<(k - 1) \div NCols, (k - 1) % NCols>>]],
          NRows * NCols)

WeightAt(i, c) == IF c \in DOMAIN weight_grid[i] THEN weight_grid[i][c] ELSE 0

\* C7: after obs_operator has run on a model output, the result has one value
\* per observation, and the value of observation i is the sum over the entries
\* (cell, weight) of its weight map of weight * model output at that cell
\* (0 for an empty map).
C7_ObsOperatorWeightedSum ==
    obs_in # None =>
        /\ DOMAIN obs_out = 1 .. Len(weight_grid)
        /\ Len(obs_out) = NObs
        /\ \A i \in 1 .. NObs :
               obs_out[i] = GridSum([c \in Cells |-> WeightAt(i, c) * obs_in[c]])

\* an observation with two cells of non-zero signal next to one with an empty map
C7_Witness ==
    /\ obs_in # None
    /\ \E i \in 1 .. NObs :
           /\ Cardinality(DOMAIN weight_grid[i]) = 2
           /\ \A c \in DOMAIN weight_grid[i] : obs_in[c] > 0
           /\ obs_out[i] > MaxWeight
    /\ \E i \in 1 .. NObs : DOMAIN weight_grid[i] = {} /\ obs_out[i] = 0

\* C8: after calc_forcing has run on a weighted residual, the forcing at every
\* cell is the sum over all observations naming the cell of weighted residual
\* * weight, and 0 at a cell no weight map names.
C8_ForcingScatterSum ==
    frc_in # None =>
        /\ DOMAIN frc_out = Cells
        /\ \A c \in Cells :
               /\ frc_out[c] = SumTo([i \in 1 .. NObs |-> frc_in[i] * WeightAt(i, c)], NObs)
               /\ (\A i \in 1 .. NObs : c \notin DOMAIN weight_grid[i]) => frc_out[c] = 0

\* two observations scatter into the same cell, another cell is in no map
C8_Witness ==
    /\ frc_in # None
    /\ \E c \in Cells :
           /\ \A i \in 1 .. NObs : c \in DOMAIN weight_grid[i] /\ frc_in[i] > 0
           /\ frc_out[c] = SumTo([i \in 1 .. NObs |-> frc_in[i] * weight_grid[i][c]], NObs)
           /\ frc_out[c] >= NObs
    /\ \E c \in Cells :
           /\ \A i \in 1 .. NObs : c \notin DOMAIN weight_grid[i]
           /\ frc_out[c] = 0

Impulse(c) == [x \in Cells |-> IF x = c THEN 1 ELSE 0]
UnitResidual(i) == [k \in 1 .. NObs |-> IF k = i THEN 1 ELSE 0]

\* C9: obs_operator on the unit impulse at a cell c of observation i's map gives
\* weight_i(c) for observation i; calc_forcing on the unit residual of
\* observation i gives weight_i(c) at c; and the two are transposes:
\* <obs_operator(x), r> = <x, calc_forcing(r)>.
C9_WeightMapDuality ==
    /\ \A i \in 1 .. NObs : \A c \in DOMAIN weight_grid[i] :
           /\ obs_in = Impulse(c) => obs_out[i] = weight_grid[i][c]
           /\ frc_in = UnitResidual(i) => frc_out[c] = weight_grid[i][c]
    /\ (obs_in # None /\ frc_in # None) =>
           SumTo([i \in 1 .. NObs |-> obs_out[i] * frc_in[i]], NObs)
               = GridSum([c \in Cells |-> obs_in[c] * frc_out[c]])

\* both operators have run, on an impulse and a unit residual of the same
\* observation whose map holds the cell with a weight above 1
C9_Witness ==
    \E i \in 1 .. NObs : \E c \in DOMAIN weight_grid[i] :
        /\ weight_grid[i][c] > 1
        /\ obs_in = Impulse(c)
        /\ frc_in = UnitResidual(i)
        /\ obs_out[i] = weight_grid[i][c]
        /\ frc_out[c] = weight_grid[i][c]

(***************************************************************************)
(* Properties of the driver.                                               *)
(***************************************************************************)
Returned(f) == status = "returned" /\ fn = f

Local(name) == Val(env[name])

Dot(a, b) == SumTo([k \in 1 .. Len(a) |-> a[k] * b[k]], Len(a))

\* the simulated observations of a vector, stage by stage
SimulatedOf(v) ==
    LET physical == uncondition(params, ff_inst, [cls |-> "UnknownData", value |-> v]).val
        model_in == prepare_model(params, physical).val
        model_out == run_model(params, model_in).val
    IN  obs_operator(model_out.value)

ResidualOf(v) == [i \in 1 .. NObs |-> observed_value[i] - SimulatedOf(v)[i]]

WeightedResidualOf(v) == error_weight([cls |-> "ObservationData", value |-> ResidualOf(v)]).value

BackgroundVector == condition(params, ff_inst, background).val.value

\* the adjoint chain forcing -> sensitivity -> physical adjoint -> unknown
AdjointGradientOf(w) ==
    LET adj_forcing == [cls |-> "AdjointForcingData", value |-> calc_forcing(w)]
        model_sensitivity == run_adjoint(params, adj_forcing).val
        physical_sensitivity == map_sense(model_sensitivity, unit_convert_dict, params).val
    IN  condition_adjoint(params, physical_sensitivity).val.value

Directions == [1 .. 2 -> {0 - 1, 0, 1}]

\* C1: for the vector v of a returned gradient_func call and every direction d,
\* gradient_func(v) . d is the central difference of cost_func along d (exact
\* for every step, here 1, because the forward chain is linear).  With costs
\* counted in halves: 4 * (gradient . d) = cost(v + d) - cost(v - d).
C1_AdjointConsistency ==
    Returned("gradient_func") =>
        \A d \in Directions :
            LET v == Local("vector")
                plus == [k \in 1 .. Len(v) |-> v[k] + d[k]]
                minus == [k \in 1 .. Len(v) |-> v[k] - d[k]]
            IN  4 * Dot(Val(ret), d) = Val(cost_func(plus).ret) - Val(cost_func(minus).ret)

\* C2: the value cost_func returns for a vector is (in halves) the sum of
\* squares of vector - background_vector plus the sum of residual * weighted
\* residual, the residual being observed - simulated of the forward chain on
\* that vector; at the background vector it is the second term alone.
C2_CostValue ==
    Returned("cost_func") =>
        LET v == Local("vector")
            first == SumTo([k \in 1 .. Len(v) |->
                               (v[k] - BackgroundVector[k]) * (v[k] - BackgroundVector[k])],
                           Len(v))
            second == Dot(ResidualOf(v), WeightedResidualOf(v))
        IN  /\ Val(ret) = first + second
            /\ v = BackgroundVector => (first = 0 /\ Val(ret) = second)

\* cost_func has returned for the background vector with a residual left
C2_Witness ==
    /\ Returned("cost_func")
    /\ Local("vector") = BackgroundVector
    /\ Val(ret) > 0
    /\ Val(ret) = Dot(ResidualOf(Local("vector")), WeightedResidualOf(Local("vector")))

\* C3: the value gradient_func returns for a vector has the length of the
\* vector and is (vector - background_vector) + the result of the adjoint chain
\* on the weighted residual of that vector.
C3_GradientValue ==
    Returned("gradient_func") =>
        LET v == Local("vector")
            adjoint == AdjointGradientOf(WeightedResidualOf(v))
        IN  /\ Len(Val(ret)) = Len(v)
            /\ \A k \in 1 .. Len(v) :
                   Val(ret)[k] = (v[k] - BackgroundVector[k]) + adjoint[k]

\* gradient_func has returned away from the background with a non-zero
\* adjoint part
C3_Witness ==
    /\ Returned("gradient_func")
    /\ Local("vector") # BackgroundVector
    /\ \E k \in 1 .. 2 : AdjointGradientOf(WeightedResidualOf(Local("vector")))[k] # 0
    /\ \E k \in 1 .. 2 : Val(ret)[k] # Local("vector")[k] - BackgroundVector[k]

ForwardLocals == {"bg_physical", "bg_unknown", "observed", "unknown", "physical",
                  "model_in", "model_out", "simulated", "residual", "w_residual"}

\* the remembered call and the returned call are calls of the two functions
\* on the same vector
TwinCalls ==
    /\ status = "returned"
    /\ probe # None
    /\ Val(probe).fn # fn
    /\ Val(probe).env["vector"] = env["vector"]

\* C4: a cost_func call and a gradient_func call on the same vector execute the
\* same first ten statements (get_background ... error_weight) in the same
\* order on the same inputs and obtain the same values, residual and weighted
\* residual included.
C4_ForwardHalvesAgree ==
    TwinCalls =>
        /\ Len(oplog) >= 10 /\ Len(Val(probe).oplog) >= 10
        /\ \A n \in 1 .. 10 : oplog[n] = Val(probe).oplog[n]
        /\ {oplog[n][3] : n \in 1 .. 10} = ForwardLocals
        /\ \A name \in ForwardLocals : env[name] = Val(probe).env[name]

\* both functions have returned for the same vector with residuals left
C4_Witness ==
    /\ TwinCalls
    /\ fn = "gradient_func"
    /\ \E i \in 1 .. NObs : Local("residual").value[i] # 0
    /\ Local("w_residual") = Val(Val(probe).env["w_residual"])
    /\ unit_convert_dict # None

\* C5: two returned calls of the same function on the same vector return the
\* same value, whatever was evaluated in between and whether or not the
\* unit-conversion cache was filled before the call.
C5_Pure ==
    (status = "returned" /\ probe # None /\ Val(probe).fn = fn
        /\ Val(probe).env["vector"] = env["vector"])
        => ret = Val(probe).ret

\* gradient_func has returned a second time for a vector, the first time with
\* the cache empty at the call (the remembered call filled it), with a
\* non-zero sensitivity
C5_Witness ==
    /\ status = "returned"
    /\ fn = "gradient_func"
    /\ probe # None
    /\ Val(probe).fn = fn
    /\ Val(probe).env["vector"] = env["vector"]
    /\ \E n \in 1 .. Len(Val(probe).oplog) : Val(probe).oplog[n][1] = "get_unit_convert"
    /\ \A n \in 1 .. Len(oplog) : oplog[n][1] # "get_unit_convert"
    /\ \E k \in 1 .. 2 : Local("unknown_gradient").value[k] # 0
    /\ ret = Val(probe).ret

\* C6: the value cost_func returns is never negative.
C6_CostNonNegative == Returned("cost_func") => Val(ret) >= 0

\* cost_func has returned a positive cost made of both terms
C6_Witness ==
    /\ Returned("cost_func")
    /\ Local("bg_cost") > 0
    /\ Local("ob_cost") > 0
    /\ Val(ret) = Local("bg_cost") + Local("ob_cost")

(***************************************************************************)
(* Arrays in memory.  A numpy array is a cell of the heap; a variable or   *)
(* an attribute holds the address of a cell, so that two names may share   *)
(* one array.  The caller holds a model field (address 1), a vector of     *)
(* observation space or of the unknowns (address 2), an emission array     *)
(* (address 3) and the arrays of the sensitivity files (address 4).        *)
(***************************************************************************)
MaxAddr == 8        \* the heap has the addresses 1..MaxAddr
MaxWrites == 1      \* the caller changes at most MaxWrites array elements

Addrs == 1 .. MaxAddr

\* the lowest free address
fresh(h) == CHOOSE a \in Addrs : h[a] = None /\ \A b \in 1 .. (a - 1) : h[b] # None

\* the arrays nobody refers to any more are collected
release(h, live) == [a \in Addrs |-> IF a \in live THEN h[a] ELSE None]

\* np.asarray( x ): the array x itself
np_array_view(h, a) == [heap |-> h, addr |-> a]

\* np.array( x ): a new array with the elements of x
np_array(h, a) == [heap |-> [h EXCEPT ![fresh(h)] = h[a]], addr |-> fresh(h)]

\* np.zeros( shape ): a new array
np_zeros(h, zeros) == [heap |-> [h EXCEPT ![fresh(h)] = Some(zeros)], addr |-> fresh(h)]

\* AdjointForcingData.__init__( value ): self.value = np.array( value )
heap_AdjointForcingData(h, a) ==
    LET r == np_array(h, a)
    IN  [heap |-> r.heap, at |-> [k \in {"value"} |-> r.addr]]

\* the loop of __init__ over self.spcs, from species k on:
\* emis_data = np.array( emis_dict[ spcs_name ] ); self.emis[ spcs_name ] = emis_data
RECURSIVE heap_init_loop(_, _, _, _, _)
heap_init_loop(h, emis_at, spcs, k, at) ==
    IF k > Len(spcs) THEN [heap |-> h, at |-> at]
    ELSE LET r == np_array(h, emis_at[spcs[k]])
         IN  heap_init_loop(r.heap, emis_at, spcs, k + 1,
                            [spc \in DOMAIN at \cup {spcs[k]} |->
                                IF spc = spcs[k] THEN r.addr ELSE at[spc]])

\* cls( None, emis_dict ) for a dictionary of the arrays at the addresses emis_at
heap_PhysicalData(h, par, emis_at) ==
    IF init_ok(par, [spc \in DOMAIN emis_at |-> Val(h[emis_at[spc]])])
    THEN LET r == heap_init_loop(h, emis_at, Val(par.spcs), 1, << >>)
         IN  [ok |-> TRUE, heap |-> r.heap, at |-> r.at]
    ELSE [ok |-> FALSE, heap |-> h, at |-> << >>]

\* obs_operator( model_output ) for model_output.value at address a: the loops
\* add into obs_val_arr = np.zeros( ObservationData.length )
heap_obs_operator(h, a) ==
    LET obs_val_arr == np_zeros(h, [obs_i \in 1 .. Len(weight_grid) |-> 0])
    IN  [heap |-> [obs_val_arr.heap EXCEPT ![obs_val_arr.addr] = Some(obs_operator(Val(h[a])))],
         out |-> {obs_val_arr.addr}]

\* calc_forcing( w_residual ) for w_residual.value at address a: the loops add
\* into force_arr = np.zeros( ... ), AdjointForcingData.create_new( force_arr )
heap_calc_forcing(h, a) ==
    LET force_arr == np_zeros(h, [c \in Cells |-> 0])
        summed == [force_arr.heap EXCEPT ![force_arr.addr] =
                      Some(forcing_outer_loop([c \in Cells |-> 0], Val(h[a]), 1))]
        r == heap_AdjointForcingData(summed, force_arr.addr)
    IN  [heap |-> r.heap, out |-> {r.at[k] : k \in DOMAIN r.at}]

\* emis_dict = { spc: np.zeros( emis_shape ) for spc in p.spcs }, from species
\* k on, filled by emis_dict[ spc ][ ind, ... ] += phys_arr
RECURSIVE heap_emis_dict(_, _, _, _, _)
heap_emis_dict(h, emis, spcs, k, at) ==
    IF k > Len(spcs) THEN [heap |-> h, at |-> at]
    ELSE LET z == np_zeros(h, Zeros4(emis[spcs[k]].shape))
         IN  heap_emis_dict([z.heap EXCEPT ![z.addr] = Some(emis[spcs[k]])],
                            emis, spcs, k + 1,
                            [spc \in DOMAIN at \cup {spcs[k]} |->
                                IF spc = spcs[k] THEN z.addr ELSE at[spc]])

\* map_sense( sensitivity ) for the arrays of the sensitivity files at address a
heap_map_sense(h, a, cache, par) ==
    LET r == map_sense([cls |-> "SensitivityData", file_data |-> Val(h[a])], cache, par)
    IN  IF ~ r.ok THEN [ok |-> FALSE, heap |-> h, out |-> {}]
        ELSE LET emis_dict == heap_emis_dict(h, r.val.emis, Val(par.spcs), 1, << >>)
                 inst == heap_PhysicalData(emis_dict.heap, par, emis_dict.at)
             IN  [ok |-> inst.ok, heap |-> inst.heap,
                  out |-> {inst.at[k] : k \in DOMAIN inst.at}]

\* the statements of cost_func( vector ) or gradient_func( vector ), run on the
\* vector v
driver_run(f, v) == RunFrom(Body(f), 1, NewEnv(v), params, unit_convert_dict)

\* the heap after cost_func( vector ) or gradient_func( vector ) whose
\* statements ran as r: the returned gradient is np.array( gradient ), a new
\* array, the cost is a scalar
heap_driver_call(f, h, r) ==
    IF r.ok /\ f = "gradient_func"
    THEN LET g == np_zeros(h, Val(r.ret))
         IN  [ok |-> TRUE, heap |-> g.heap, out |-> {g.addr}, vector |-> r.env["vector"]]
    ELSE [ok |-> r.ok, heap |-> h, out |-> {}, vector |-> r.env["vector"]]

\* the arrays the caller starts with
HeapFields == {[c \in Cells |-> 0], Impulse(<<0, 0>>)}
HeapVectors == {<<0, 0>>, <<0 - 1, 1>>}
HeapEmis == {prior_file.emis["CO2"]}

InitHeap ==
    LET prior == from_file("PhysicalData", NoParams, prior_file)
    IN  /\ params = prior.params
        /\ ff_conflict = FALSE
        /\ ff_result = prior.result
        /\ ff_inst = prior.inst
        /\ ff_differs = {}
        /\ ff_warned = prior.warned
        /\ ff_sound = TRUE
        /\ phys_current = None
        /\ ctor_call = None
        /\ weight_grid \in DriverGrids
        /\ obs_in = None
        /\ obs_out = None
        /\ frc_in = None
        /\ frc_out = None
        /\ unit_convert_dict = Some(get_unit_convert)
        /\ background = uncondition(prior.params, prior.inst,
                                    [cls |-> "UnknownData", value |-> <<1, 0 - 1>>]).val
        /\ observed_value = [i \in 1 .. NObs |-> i + 2]
        /\ fn = "None"
        /\ status = "idle"
        /\ pc = 0
        /\ env = << >>
        /\ oplog = << >>
        /\ cleaned = {}
        /\ ret = None
        /\ probe = None
        /\ SenseIdle
        /\ ArchiveIdle
        /\ \E field \in HeapFields, vector \in HeapVectors, emis \in HeapEmis :
               heap = [a \in Addrs |->
                          IF a = 1 THEN Some(field)
                          ELSE IF a = 2 THEN Some(vector)
                          ELSE IF a = 3 THEN Some(emis)
                          ELSE IF a = 4
                          THEN Some(run_adjoint(prior.params,
                                                [cls |-> "AdjointForcingData",
                                                 value |-> field]).val.file_data)
                          ELSE None]
        /\ caller = [held |-> 1 .. 4, writes |-> 0]
        /\ instance = None
        /\ heap_call = None

\* the addresses an instance or the caller refers to
Live == caller.held \cup (IF instance = None THEN {}
                          ELSE {Val(instance).at[k] : k \in DOMAIN Val(instance).at})

HeapFrame == UNCHANGED <<obsvars, parvars, drvvars, snsvars, arcvars>>

\* instance = AdjointForcingData( value ) for the caller's field
NewAdjointForcingData ==
    LET r == heap_AdjointForcingData(release(heap, caller.held), 1)
    IN  /\ heap' = r.heap
        /\ instance' = Some([cls |-> "AdjointForcingData", at |-> r.at,
                             src |-> [k \in {"value"} |-> 1],
                             given |-> [k \in {"value"} |-> Val(heap[1])]])
        /\ heap_call' = None
        /\ UNCHANGED caller
        /\ HeapFrame

\* instance = cls( None, emis_dict ) for the caller's emission array
NewPhysicalData ==
    \E cls \in Classes :
        LET emis_at == [spc \in Range(Val(params.spcs)) |-> 3]
            r == heap_PhysicalData(release(heap, caller.held), params, emis_at)
        IN  /\ heap' = r.heap
            /\ instance' = IF r.ok
                           THEN Some([cls |-> cls, at |-> r.at, src |-> emis_at,
                                      given |-> [spc \in DOMAIN emis_at |-> Val(heap[3])]])
                           ELSE None
            /\ heap_call' = None
            /\ UNCHANGED caller
            /\ HeapFrame

\* the caller assigns to an element of one of its arrays
CallerWrites ==
    /\ caller.writes < MaxWrites
    /\ \/ \E a \in {1, 2} : \E idx \in DOMAIN Val(heap[a]), v \in 0 .. MaxVal :
              /\ v # Val(heap[a])[idx]
              /\ heap' = [heap EXCEPT ![a] = Some([Val(heap[a]) EXCEPT ![idx] = v])]
       \/ \E idx \in DOMAIN Val(heap[3]).val, v \in 0 .. MaxVal :
              /\ v # Val(heap[3]).val[idx]
              /\ heap' = [heap EXCEPT ![3] = Some([Val(heap[3]) EXCEPT !.val[idx] = v])]
    /\ caller' = [caller EXCEPT !.writes = @ + 1]
    /\ UNCHANGED <<instance, heap_call>>
    /\ HeapFrame

\* the record of a call: the heap before and after it, the weight maps before
\* and after it, the vector argument before and after it
CallRecord(op, arg, before, r, vector_in, vector_out) ==
    Some([op |-> op, arg |-> arg, before |-> before, after |-> r.heap, out |-> r.out,
          weights_before |-> weight_grid, weights_after |-> weight_grid',
          vector_in |-> vector_in, vector_out |-> vector_out])

\* simulated = obs_operator( model_output )
HeapObsOperator ==
    LET before == release(heap, Live)
        r == heap_obs_operator(before, 1)
    IN  /\ HeapFrame
        /\ heap' = r.heap
        /\ heap_call' = CallRecord("obs_operator", 1, before, r, None, None)
        /\ UNCHANGED <<caller, instance>>

\* adj_forcing = calc_forcing( w_residual )
HeapCalcForcing ==
    LET before == release(heap, Live)
        r == heap_calc_forcing(before, 2)
    IN  /\ HeapFrame
        /\ heap' = r.heap
        /\ heap_call' = CallRecord("calc_forcing", 2, before, r, None, None)
        /\ UNCHANGED <<caller, instance>>

\* physical_sensitivity = map_sense( model_sensitivity )
HeapMapSense ==
    LET before == release(heap, Live)
        r == heap_map_sense(before, 4, unit_convert_dict, params)
    IN  /\ HeapFrame
        /\ heap' = r.heap
        /\ heap_call' = CallRecord("map_sense", 4, before, r, None, None)
        /\ UNCHANGED <<caller, instance>>

\* the minimizer calls cost_func( vector ) or gradient_func( vector )
HeapDriverCall ==
    \E f \in {"cost_func", "gradient_func"} : \E run \in {driver_run(f, Val(heap[2]))} :
        LET before == release(heap, Live)
            r == heap_driver_call(f, before, run)
        IN  /\ HeapFrame
            /\ heap' = r.heap
            /\ heap_call' = CallRecord(f, 2, before, r, heap[2], r.vector)
            /\ UNCHANGED <<caller, instance>>

NextHeap ==
    \/ NewAdjointForcingData
    \/ NewPhysicalData
    \/ CallerWrites
    \/ HeapObsOperator
    \/ HeapCalcForcing
    \/ HeapMapSense
    \/ HeapDriverCall

SpecHeap == InitHeap /\ [][NextHeap]_vars

\* the caller changed an array after it gave it to the constructor
CallerChangedGiven ==
    /\ instance # None
    /\ \E k \in DOMAIN Val(instance).src :
           heap[Val(instance).src[k]] # Some(Val(instance).given[k])

\* C26: no representation is mutated after construction: obs_operator,
\* calc_forcing and map_sense leave every array that existed before the call,
\* their input among them, and the observation weight maps unchanged,
\* cost_func and gradient_func leave the vector argument unchanged, and the
\* arrays of a PhysicalData or AdjointForcingData instance stay equal to the
\* arrays given to the constructor whatever the caller does to its arrays later
C26_NoMutation ==
    /\ instance # None =>
           \A k \in DOMAIN Val(instance).at :
               heap[Val(instance).at[k]] = Some(Val(instance).given[k])
    /\ heap_call # None =>
           LET call == Val(heap_call)
           IN  /\ \A a \in Addrs : call.before[a] # None => call.after[a] = call.before[a]
               /\ call.weights_after = call.weights_before
               /\ call.vector_out = call.vector_in

\* the caller changed the array it had given to the constructor, and
\* calc_forcing returned a new forcing afterwards
C26_Witness ==
    /\ CallerChangedGiven
    /\ heap_call # None
    /\ Val(heap_call).op = "calc_forcing"
    /\ Val(heap_call).out # {}

(***************************************************************************)
(* get_answer (_main_driver.py): the run of the minimizer.  user_driver is *)
(* the user's module: setup, post_process and cleanup are calls whose      *)
(* arguments are recorded, minim returns any vector of the length of the   *)
(* starting vector together with the cost there.                           *)
(***************************************************************************)
\* get_answer with user_driver.setup() after the minimizer
get_answer_body_late_setup == <<
    Stmt("get_background", "", "bg_physical", << >>),
    Stmt("transform", "UnknownData", "bg_unknown", <<"bg_physical">>),
    Stmt("get_vector", "", "start_vector", <<"bg_unknown">>),
    Stmt("minim", "", "min_output", <<"start_vector">>),
    Stmt("setup", "", "", << >>),
    Stmt("first", "", "out_vector", <<"min_output">>),
    Stmt("UnknownData", "", "out_unknown", <<"out_vector">>),
    Stmt("transform", "PhysicalData", "out_physical", <<"out_unknown">>),
    Stmt("post_process", "", "", <<"out_physical", "min_output">>),
    Stmt("cleanup", "", "", <<"out_unknown">>),
    Stmt("cleanup", "", "", <<"out_physical">>),
    Stmt("user_cleanup", "", "", << >>),
    Stmt("return", "", "", << >>) >>

\* the statements of get_answer
get_answer_body == <<
    Stmt("get_background", "", "bg_physical", << >>),
    Stmt("transform", "UnknownData", "bg_unknown", <<"bg_physical">>),
    Stmt("setup", "", "", << >>),
    Stmt("get_vector", "", "start_vector", <<"bg_unknown">>),
    Stmt("minim", "", "min_output", <<"start_vector">>),
    Stmt("first", "", "out_vector", <<"min_output">>),
    Stmt("UnknownData", "", "out_unknown", <<"out_vector">>),
    Stmt("transform", "PhysicalData", "out_physical", <<"out_unknown">>),
    Stmt("post_process", "", "", <<"out_physical", "min_output">>),
    Stmt("cleanup", "", "", <<"out_unknown">>),
    Stmt("cleanup", "", "", <<"out_physical">>),
    Stmt("user_cleanup", "", "", << >>),
    Stmt("return", "", "", << >>) >>

AnswerNames ==
    UNION {{get_answer_body[n].out} \cup Range(get_answer_body[n].args) :
              n \in 1 .. Len(get_answer_body)}

\* an entry of the log of get_answer: the statement, the values passed to a
\* function of user_driver and the value a statement assigned
Entry(stmt, vals, result) ==
    [op |-> stmt.op, cls |-> stmt.cls, out |-> stmt.out, args |-> stmt.args,
     vals |-> vals, result |-> result]

InitAnswer ==
    LET prior == from_file("PhysicalData", NoParams, prior_file)
    IN  /\ params = prior.params
        /\ ff_conflict = FALSE
        /\ ff_result = prior.result
        /\ ff_inst = prior.inst
        /\ ff_differs = {}
        /\ ff_warned = prior.warned
        /\ ff_sound = TRUE
        /\ phys_current = None
        /\ ctor_call = None
        /\ weight_grid \in DriverGrids
        /\ obs_in = None
        /\ obs_out = None
        /\ frc_in = None
        /\ frc_out = None
        /\ unit_convert_dict = None
        /\ \E b \in {<<0, 0>>, <<1, 0 - 1>>} :
               background = uncondition(prior.params, prior.inst,
                                        [cls |-> "UnknownData", value |-> b]).val
        /\ observed_value \in {[i \in 1 .. NObs |-> 0], [i \in 1 .. NObs |-> i + 2]}
        /\ fn = "get_answer"
        /\ status = "running"
        /\ pc = 1
        /\ env = [name \in AnswerNames |-> None]
        /\ oplog = << >>
        /\ cleaned = {}
        /\ ret = None
        /\ probe = None
        /\ SenseIdle
        /\ ArchiveIdle
        /\ HeapIdle

AnswerAt(ops) == status = "running" /\ fn = "get_answer" /\ get_answer_body[pc].op \in ops

AnswerFrame ==
    UNCHANGED <<obsvars, snsvars, arcvars, heapvars, parvars, unit_convert_dict, background,
                observed_value, fn, ret, probe>>

\* a statement of get_answer that assigns a local variable
AnswerAssign ==
    /\ AnswerAt({"get_background", "transform", "get_vector", "UnknownData", "first"})
    /\ LET stmt == get_answer_body[pc]
           r == IF stmt.op = "first"
                THEN [ok |-> TRUE, val |-> Val(env[stmt.args[1]])[1]]
                ELSE Exec(stmt, env, params, unit_convert_dict)
       IN  /\ r.ok
           /\ env' = [env EXCEPT ![stmt.out] = Some(r.val)]
           /\ oplog' = Append(oplog, Entry(stmt, << >>, Some(r.val)))
    /\ pc' = pc + 1
    /\ UNCHANGED <<status, cleaned>>
    /\ AnswerFrame

\* user_driver.setup(), user_driver.post_process( out_physical, min_output[1:] )
\* and user_driver.cleanup()
AnswerUserDriver ==
    /\ AnswerAt({"setup", "post_process", "user_cleanup"})
    /\ LET stmt == get_answer_body[pc]
           vals == IF stmt.op = "post_process"
                   THEN <<Val(env[stmt.args[1]]), Tail(Val(env[stmt.args[2]]))>>
                   ELSE << >>
       IN  oplog' = Append(oplog, Entry(stmt, vals, None))
    /\ pc' = pc + 1
    /\ UNCHANGED <<status, env, cleaned>>
    /\ AnswerFrame

\* min_output = user_driver.minim( cost_func, gradient_func, start_vector )
Minimize ==
    /\ AnswerAt({"minim"})
    /\ LET stmt == get_answer_body[pc]
           start_vector == Val(env[stmt.args[1]])
       IN  \E out_vector \in {v \in Vectors : Len(v) = Len(start_vector)} :
               LET min_output == <<out_vector, cost_func(out_vector).ret>>
               IN  /\ env' = [env EXCEPT ![stmt.out] = Some(min_output)]
                   /\ oplog' = Append(oplog,
                                      Entry(stmt, <<"cost_func", "gradient_func", start_vector>>,
                                            Some(min_output)))
    /\ pc' = pc + 1
    /\ UNCHANGED <<status, cleaned>>
    /\ AnswerFrame

\* out_unknown.cleanup(), out_physical.cleanup()
AnswerCleanup ==
    /\ AnswerAt({"cleanup"})
    /\ cleaned' = cleaned \cup {get_answer_body[pc].args[1]}
    /\ oplog' = Append(oplog, Entry(get_answer_body[pc], << >>, None))
    /\ pc' = pc + 1
    /\ UNCHANGED <<status, env>>
    /\ AnswerFrame

\* return None
AnswerReturn ==
    /\ AnswerAt({"return"})
    /\ status' = "returned"
    /\ oplog' = Append(oplog, Entry(get_answer_body[pc], << >>, None))
    /\ UNCHANGED <<pc, env, cleaned>>
    /\ AnswerFrame

NextAnswer == AnswerAssign \/ AnswerUserDriver \/ Minimize \/ AnswerCleanup \/ AnswerReturn

SpecAnswer == InitAnswer /\ [][NextAnswer]_vars

\* the positions of the log where the operation op is
At(op) == {k \in 1 .. Len(oplog) : oplog[k].op = op}

\* some entry of the operation op comes before position k of the log
Before(op, k) == \E j \in At(op) : j < k

\* the cleanup of the local variable name comes before position k of the log
CleanedBefore(name, k) == \E j \in At("cleanup") : j < k /\ oplog[j].args = <<name>>

\* C21: get_answer transforms the background to the starting vector, calls
\* user_driver.setup before the minimizer, calls the minimizer once, with
\* cost_func, gradient_func and that starting vector, transforms the first
\* element of the result to PhysicalData and passes it with the other
\* elements of the result to post_process, and only after that cleans up
\* out_unknown and out_physical and then calls user_driver.cleanup
C21_DriverOrdering ==
    /\ Cardinality(At("minim")) <= 1
    /\ \A k \in At("minim") :
           /\ Before("setup", k)
           /\ oplog[k].vals = <<"cost_func", "gradient_func", BackgroundVector>>
    /\ \A k \in At("post_process") :
           /\ \E m \in At("minim") :
                  /\ m < k
                  /\ oplog[k].vals =
                         <<uncondition(params, ff_inst,
                                       [cls |-> "UnknownData",
                                        value |-> Val(oplog[m].result)[1]]).val,
                           Tail(Val(oplog[m].result))>>
    /\ \A k \in At("cleanup") : Before("post_process", k)
    /\ \A k \in At("user_cleanup") :
           CleanedBefore("out_unknown", k) /\ CleanedBefore("out_physical", k)
    /\ \A k \in At("return") :
           /\ k = Len(oplog)
           /\ Cardinality(At("minim")) = 1
           /\ Cardinality(At("post_process")) = 1
           /\ oplog[k - 1].op = "user_cleanup"

\* get_answer returned after a minimizer that moved away from the starting
\* vector
C21_Witness ==
    /\ fn = "get_answer"
    /\ status = "returned"
    /\ \E k \in At("minim") : Val(oplog[k].result)[1] # BackgroundVector

====
